---- MODULE Spec2Model ----
(***************************************************************************)
(* The incremental synchronisation pipeline of gitlab_chatbot:             *)
(*   fetch_files   (workers/files_fetcher.py)  - the celery beat cycle     *)
(*   process_file  (workers/files_processor.py) - one job per file         *)
(*   embed_chunk   (workers/embed.py)           - one job per chunk        *)
(*   safe_get      (workers/gitlab_utils.py)    - the HTTP retry loop      *)
(*   scrape_gitlab (workers/worker.py)          - the monolithic cycle     *)
(*   hybrid_search (utils/hybrid_search.py)     - the read path            *)
(* over the three tables of models/document_db.py and the generic CRUD     *)
(* helper of db/__init__.py.                                               *)
(***************************************************************************)
EXTENDS Integers, Sequences, FiniteSets, TLC

\* ------------------------------------------------------------------ bounds
MaxPushes == 1
MaxCycles == 2
MaxChunks == 2
MaxFaults == 1
\* the bounds of the runs of fetch_files alone
MaxHistory == 3
MaxBeats == 3
\* the largest top_k below the defaults
MaxTopK == 2
\* the most pieces of a path between its root and its suffix
MaxPathLen == 3
\* the most words of a content
MaxWords == 4
\* the most files one scrape_gitlab cycle hands to its pool, and the most
\* rate-limit answers the remote gives during the cycle
MaxFiles == 7
MaxBackoffs == 2
MaxPages == 2

\* ------------------------------------------------------- program constants
NumRepos == 2
PER_PAGE == 100
MAX_RETRIES == 5
GITLAB_RATE_LIMIT == 429
EMBED_MAX_RETRIES == 3
\* hybrid_search: the defaults of top_k, and the weights 0.7 and 0.3 and the
\* 1 of "1 - distance" in tenths
TOP_K == 10
RAG_TOP_K == 5
VECTOR_WEIGHT == 7
TEXT_WEIGHT == 3
One == 10
\* the text splitter of files_processor.py and the slices of worker.py
CHUNK_SIZE == 300
CHUNK_OVERLAP == 50
WORKER_CHUNK_SIZE == 1000
\* the thread pool of scrape_gitlab
MAX_WORKERS == 6

\* Python's None: as an error message, as a commit id or timestamp, and as a
\* missing commit_tracker row.
None == "None"
NoCommit == 0
NoTracker == [last_commit_id |-> NoCommit, last_commit_time |-> NoCommit]

Repos == 1..NumRepos

\* TRACKED_REPOS: label and collection of each tracked repository; the
\* project id of repository r is r.
TRACKED_REPOS ==
  [r \in Repos |->
     IF r = 1 THEN [label |-> "handbook", collection_id |-> "handbook",
                    subdir |-> <<"content/handbook">>,
                    extensions |-> {<<".md">>}]
              ELSE [label |-> "direction", collection_id |-> "direction",
                    subdir |-> <<"source/direction/">>,
                    extensions |-> {<<".md">>, <<".md", ".erb">>}]]

\* The paths under the tracked subdirectory of r that match its extensions.
PathsOf(r) == IF r = 1 THEN {"content/handbook/a.md"}
                       ELSE {"source/direction/b.md"}

\* The numbers of chunks the contents of a file of r may yield.
ContentSizes(r) == IF r = 1 THEN 0..MaxChunks ELSE {1}

Files == UNION {PathsOf(r) : r \in Repos}

RepoOfPath(f) == CHOOSE r \in Repos : f \in PathsOf(r)

\* No path.
NoPath == ""

\* Paths of the remote of r that are not tracked: beside the subdirectory,
\* under it with another extension, or elsewhere.
OtherPaths(r) == IF r = 1 THEN {"content/handbook-archive/c.md",
                                "content/handbook/a.txt"}
                          ELSE {"source/other/d.md"}

\* sorted(): the lexicographic order of the paths.
FileOrder == <<"content/handbook-archive/c.md", "content/handbook/a.md",
               "content/handbook/a.txt", "source/direction/b.md",
               "source/other/d.md">>

\* The paths cut at the places where startswith(subdir) and endswith(ext)
\* can cut them.
ScopeTokens(f) ==
  CASE f = "content/handbook/a.md" -> <<"content/handbook", "/a", ".md">>
    [] f = "content/handbook-archive/c.md" ->
         <<"content/handbook", "-archive/c", ".md">>
    [] f = "content/handbook/a.txt" -> <<"content/handbook", "/a", ".txt">>
    [] f = "source/direction/b.md" -> <<"source/direction/", "b", ".md">>
    [] f = "source/other/d.md" -> <<"source/", "other/d", ".md">>

\* str.startswith and str.endswith
StartsWith(s, prefix) ==
  Len(prefix) <= Len(s) /\ SubSeq(s, 1, Len(prefix)) = prefix

EndsWith(s, suffix) ==
  Len(suffix) <= Len(s) /\
    SubSeq(s, Len(s) - Len(suffix) + 1, Len(s)) = suffix

\* CheckpointState
PROCESS_PENDING == "PROCESS_PENDING"
PROCESSED == "PROCESSED"
EMBEDDED == "EMBEDDED"
DELETED == "DELETED"
PROCESS_ERROR == "PROCESS_ERROR"
EMBED_ERROR == "EMBED_ERROR"
ERROR == "ERROR"
\* worker.py writes a state that CheckpointState does not have
INSERTED == "INSERTED"

VARIABLES
  commits,      \* remote: per repository the commit history, oldest first
  clock,        \* the next commit id / timestamp
  pushes,       \* commits pushed after the initial ones
  checkpoints,  \* table checkpoints: set of rows
  documents,    \* table documents: set of rows
  cursor,       \* table commit_tracker: per project NoTracker or the row
  pfJobs,       \* process_file jobs, queued or running
  embedJobs,    \* embed jobs on the "embedding" queue
  nextJob,      \* id of the next process_file job
  fetchPos,     \* fetch_files: 0 idle, r the repository the loop is at
  scrapePos,    \* scrape_gitlab: 0 idle, r the repository the loop is at
  cycles,       \* beat triggers so far
  lastCycle,    \* what the last repository cycle resolved and did
  pfLog,        \* how each finished process_file job ended
  embedDead,    \* embed jobs whose retries are exhausted
  faults,       \* failures of the environment so far (HTTP, database, model)
  sg,           \* one safe_get call
  search,       \* one call of the read path (hybrid_search)
  call,         \* one call of a pure helper: its arguments and its result
  pool          \* the thread pool of one scrape_gitlab cycle

vars == <<commits, clock, pushes, checkpoints, documents, cursor, pfJobs,
          embedJobs, nextJob, fetchPos, scrapePos, cycles, lastCycle, pfLog,
          embedDead, faults, sg, search, call, pool>>

pipeVars == <<commits, clock, pushes, checkpoints, documents, cursor, pfJobs,
              embedJobs, nextJob, fetchPos, scrapePos, cycles, lastCycle,
              pfLog, embedDead, faults>>

\* ------------------------------------------------------------- the remote

Newest(r) == commits[r][Len(commits[r])]

RECURSIVE Reverse(_)
Reverse(s) == IF s = <<>> THEN <<>> ELSE Append(Reverse(Tail(s)), Head(s))

\* Index of the last commit with id <= ref that touches f, 0 when none.
LastTouch(r, f, ref) ==
  LET I == {i \in 1..Len(commits[r]) :
              commits[r][i].id <= ref /\ commits[r][i].path = f}
  IN IF I = {} THEN 0 ELSE CHOOSE i \in I : \A k \in I : k <= i

ExistsAt(r, f, ref) ==
  /\ \E i \in 1..Len(commits[r]) : commits[r][i].id = ref
  /\ LastTouch(r, f, ref) > 0
  /\ ~commits[r][LastTouch(r, f, ref)].deleted

\* A listing that drops every entry.
get_tree_entries_Empty(r) == {f \in PathsOf(r) : FALSE}

\* get_tree_entries: the blobs of the current tree under the subdirectory.
get_tree_entries(r) == {f \in PathsOf(r) : ExistsAt(r, f, Newest(r).id)}

\* get_commits: newest first, one page, optionally since a timestamp.
get_commits(r, since) ==
  LET InWindow(c) == since = NoCommit \/ c.time >= since
      all == SelectSeq(Reverse(commits[r]), InWindow)
  IN SubSeq(all, 1, IF Len(all) < PER_PAGE THEN Len(all) ELSE PER_PAGE)

\* get_file_content: the content of f at ref (the commit that wrote it and
\* the number of chunks it yields); found = FALSE for a 404.
get_file_content(r, f, ref) ==
  IF ExistsAt(r, f, ref)
  THEN LET c == commits[r][LastTouch(r, f, ref)]
       IN [found |-> TRUE, ver |-> c.id, size |-> c.size]
  ELSE [found |-> FALSE, ver |-> 0, size |-> 0]

\* A push to the remote: one commit that adds/modifies (size = the number of
\* chunks the new content yields) or deletes one tracked path.
PushUpTo(limit, r, f, del, n) ==
  /\ pushes < limit
  /\ f \in PathsOf(r)
  /\ n \in ContentSizes(r)
  /\ del => ExistsAt(r, f, Newest(r).id)
  /\ del => n = CHOOSE k \in ContentSizes(r) : TRUE
  /\ commits' = [commits EXCEPT ![r] = Append(@,
                   [id |-> clock, time |-> clock, path |-> f,
                    deleted |-> del, size |-> n, other |-> NoPath])]
  /\ clock' = clock + 1
  /\ pushes' = pushes + 1
  /\ UNCHANGED <<checkpoints, documents, cursor, pfJobs, embedJobs, nextJob,
                 fetchPos, scrapePos, cycles, lastCycle, pfLog, embedDead,
                 faults, sg, search, call, pool>>

Push(r, f, del, n) == PushUpTo(MaxPushes, r, f, del, n)

\* ------------------------------------------- CRUDCapability (db/__init__.py)

CommitIds == 1..(NumRepos + MaxPushes + MaxHistory)
ChunkIdx == 0..(MaxChunks - 1)

\* session.scalars(stmt).first() on a statement without ORDER BY: the
\* database may return any matching row first; pref names the one it does.
FirstCheckpoint(rows, pref) ==
  IF \E c \in rows : c.commit_id = pref
  THEN CHOOSE c \in rows : c.commit_id = pref
  ELSE CHOOSE c \in rows : TRUE

FirstDocument(rows, pref) ==
  IF \E d \in rows : d.chunk_index = pref
  THEN CHOOSE d \in rows : d.chunk_index = pref
  ELSE CHOOSE d \in rows : TRUE

\* delete_resource: deletes the first row the statement selects, if any.
delete_resource(table, match, pref) ==
  IF match = {} THEN table ELSE table \ {FirstDocument(match, pref)}

\* uq_commit_file: a checkpoint row may be written only if no other row has
\* its (commit_id, file_path).
CheckpointConflict(table, old, new) ==
  \E c \in table \ old :
     c.commit_id = new.commit_id /\ c.file_path = new.file_path

\* uq_source_chunk
DocumentConflict(table, new) ==
  \E d \in table : d.source = new.source /\ d.chunk_index = new.chunk_index

CheckpointsOf(table, f) == {c \in table : c.file_path = f}

\* ------------------------------------- determine_file_changes (files_fetcher)

\* Lines 59-64: a diff counts when its path starts with the subdirectory
\* and ends with one of the extensions.
InScope(r, path) ==
  /\ StartsWith(ScopeTokens(path), TRACKED_REPOS[r].subdir)
  /\ \E ext \in TRACKED_REPOS[r].extensions : EndsWith(ScopeTokens(path), ext)

\* get_commit_diff: the diff entries of a commit, each with its path and
\* whether it deletes the file.
get_commit_diff(c) ==
  <<[path |-> c.path, deleted_file |-> c.deleted]>> \o
  (IF c.other = NoPath THEN <<>>
   ELSE <<[path |-> c.other, deleted_file |-> FALSE]>>)

RECURSIVE WalkDiff(_, _, _)
\* Lines 57-69: the loop over the diff entries of one commit.
WalkDiff(r, diffs, acc) ==
  IF diffs = <<>> THEN acc
  ELSE LET d == Head(diffs)
           acc1 == IF ~InScope(r, d.path) THEN acc
                   ELSE IF d.deleted_file
                   THEN [acc EXCEPT !.deleted = @ \cup {d.path}]
                   ELSE [acc EXCEPT !.changed = @ \cup {d.path}]
       IN WalkDiff(r, Tail(diffs), acc1)

\* The accumulator of a walk: the paths classified so far, the commits
\* whose diff was requested, and whether the loop ended at the cursor commit.
NoWalk == [changed |-> {}, deleted |-> {}, inspected |-> {}, stopped |-> FALSE]

\* A walk that has no stop boundary: the diff of every listed commit is
\* requested.
WalkCommits_NoStop(r, cs, last_commit, acc) ==
  LET I == 1..Len(cs)
      Entries == UNION {{d : d \in {get_commit_diff(cs[i])[k] :
                                      k \in 1..Len(get_commit_diff(cs[i]))}} :
                        i \in I}
  IN [changed |-> acc.changed \cup
                    {d.path : d \in {e \in Entries :
                                       InScope(r, e.path) /\ ~e.deleted_file}},
      deleted |-> acc.deleted \cup
                    {d.path : d \in {e \in Entries :
                                       InScope(r, e.path) /\ e.deleted_file}},
      inspected |-> acc.inspected \cup {cs[i].id : i \in I},
      stopped |-> FALSE]

RECURSIVE WalkCommits(_, _, _, _)
\* The newest-first walk: stops at the cursor commit, classifies each diff
\* that is in scope.
WalkCommits(r, cs, last_commit, acc) ==
  IF cs = <<>> THEN acc
  ELSE IF Head(cs).id = last_commit THEN [acc EXCEPT !.stopped = TRUE]
  ELSE WalkCommits(r, Tail(cs), last_commit,
                   WalkDiff(r, get_commit_diff(Head(cs)),
                            [acc EXCEPT !.inspected = @ \cup {Head(cs).id}]))

\* A first run that leaves out the files that have a checkpoint.
determine_file_changes_NewOnly(r, last_commit, last_time) ==
  LET current_files == get_tree_entries(r)
      seen_files == {c.file_path : c \in {x \in checkpoints : x.state # DELETED}}
  IN [to_process |-> current_files \ seen_files, to_delete |-> {},
      latest_commit |-> get_commits(r, NoCommit)[1].id,
      inspected |-> {}, stopped |-> FALSE]

determine_file_changes(r, last_commit, last_time) ==
  LET current_files == get_tree_entries(r)
      seen_files == {c.file_path : c \in {x \in checkpoints : x.state # DELETED}}
      walked == IF last_commit = NoCommit
                THEN [NoWalk EXCEPT !.changed = current_files]
                ELSE WalkCommits(r, get_commits(r, last_time), last_commit,
                                 NoWalk)
      new_or_failed == current_files \ seen_files
  IN [to_process |-> new_or_failed \cup walked.changed,
      to_delete |-> walked.deleted,
      latest_commit |-> get_commits(r, NoCommit)[1].id,
      inspected |-> walked.inspected, stopped |-> walked.stopped]

\* ------------------------------------------------- fetch_files (files_fetcher)

SortedPaths(S) ==
  LET In(f) == f \in S IN SelectSeq(FileOrder, In)

RECURSIVE ProcessOps(_)
ProcessOps(ps) ==
  IF ps = <<>> THEN <<>>
  ELSE <<[kind |-> "checkpoint_pending", path |-> Head(ps)],
         [kind |-> "dispatch", path |-> Head(ps)]>> \o ProcessOps(Tail(ps))

RECURSIVE DeleteOps(_)
DeleteOps(ps) ==
  IF ps = <<>> THEN <<>>
  ELSE <<[kind |-> "checkpoint_deleted", path |-> Head(ps)],
         [kind |-> "delete_document", path |-> Head(ps)]>> \o DeleteOps(Tail(ps))

\* A cycle that writes the cursor before anything else.
CycleOps_TrackerFirst(ch) ==
  <<[kind |-> "commit_tracker", path |-> ""]>>
    \o ProcessOps(SortedPaths(ch.to_process)) \o DeleteOps(SortedPaths(ch.to_delete))

\* The statements of one repository's cycle, in program order.
CycleOps(ch) ==
  ProcessOps(SortedPaths(ch.to_process)) \o DeleteOps(SortedPaths(ch.to_delete))
    \o <<[kind |-> "commit_tracker", path |-> ""]>>

\* Lines 103-124: checkpoint of a file to process.
MarkPending(st, f, latest, pref) ==
  LET m == CheckpointsOf(st.cps, f)
  IN IF m = {}
     THEN [st EXCEPT !.cps = @ \cup {[commit_id |-> latest, file_path |-> f,
                                      state |-> PROCESS_PENDING,
                                      error_message |-> None]}]
     ELSE LET row == FirstCheckpoint(m, pref)
              new == [row EXCEPT !.state = PROCESS_PENDING, !.commit_id = latest]
          IN IF CheckpointConflict(st.cps, {row}, new)
             THEN [st EXCEPT !.raised = TRUE]
             ELSE [st EXCEPT !.cps = (@ \ {row}) \cup {new}]

\* Lines 125-130: process_file.delay(...). The field rediscovered is history
\* only: when the cycle began the file had a checkpoint PROCESSED or EMBEDDED
\* at another commit.
Dispatch(st, r, f, latest) ==
  [st EXCEPT !.jobs = @ \cup {[id |-> st.next, project_id |-> r,
                               file_path |-> f, commit_sha |-> latest,
                               collection_id |-> TRACKED_REPOS[r].collection_id,
                               pc |-> "queued", existing |-> FALSE,
                               stale |-> FALSE,
                               rediscovered |->
                                 \E c \in checkpoints :
                                    /\ c.file_path = f
                                    /\ c.commit_id # latest
                                    /\ c.state \in {PROCESSED, EMBEDDED}]},
              !.next = @ + 1]

\* Lines 134-152: checkpoint of a file to delete.
MarkDeleted(st, f, latest, pref) ==
  LET m == CheckpointsOf(st.cps, f)
  IN IF m = {}
     THEN [st EXCEPT !.cps = @ \cup {[commit_id |-> latest, file_path |-> f,
                                      state |-> DELETED,
                                      error_message |-> None]}]
     ELSE LET row == FirstCheckpoint(m, pref)
          IN [st EXCEPT !.cps = (@ \ {row}) \cup {[row EXCEPT !.state = DELETED]}]

\* Lines 154-160: document_crud.delete_resource(source, collection_id)
DeleteDocuments(st, r, f, pref) ==
  [st EXCEPT !.docs = delete_resource(@,
      {d \in st.docs : d.source = f
                       /\ d.collection_id = TRACKED_REPOS[r].collection_id},
      pref)]

\* Lines 162-173: the cursor of the repository is created or updated.
WriteTracker(st, latest) ==
  [st EXCEPT !.cur = [last_commit_id |-> latest, last_commit_time |-> clock]]

ApplyOp(op, st, r, latest, fails, pref) ==
  IF fails THEN [st EXCEPT !.raised = TRUE]
  ELSE LET st1 ==
         CASE op.kind = "checkpoint_pending" -> MarkPending(st, op.path, latest, pref.pending)
           [] op.kind = "dispatch" -> Dispatch(st, r, op.path, latest)
           [] op.kind = "checkpoint_deleted" -> MarkDeleted(st, op.path, latest, pref.deleted)
           [] op.kind = "delete_document" -> DeleteDocuments(st, r, op.path, pref.doc)
           [] OTHER -> WriteTracker(st, latest)
       IN IF st1.raised THEN st1 ELSE [st1 EXCEPT !.done = @ + 1]

RECURSIVE RunOps(_, _, _, _, _, _, _)
\* The body of the try block: stops at the first statement that raises.
RunOps(ops, i, st, r, latest, failAt, pref) ==
  IF i > Len(ops) \/ st.raised THEN st
  ELSE RunOps(ops, i + 1, ApplyOp(ops[i], st, r, latest, i = failAt, pref),
              r, latest, failAt, pref)

\* The rows first() may return: a choice exists only where several rows of
\* one path (one source) are stored.
CheckpointPrefs(S) ==
  IF \A f \in S : Cardinality(CheckpointsOf(checkpoints, f)) <= 1 THEN {0}
  ELSE {c.commit_id : c \in {x \in checkpoints : x.file_path \in S}}

DocumentPrefs(S) ==
  IF \A f \in S : Cardinality({d \in documents : d.source = f}) <= 1 THEN {0}
  ELSE {d.chunk_index : d \in {x \in documents : x.source \in S}}

Prefs(r) == [pending : CheckpointPrefs(PathsOf(r)),
             deleted : CheckpointPrefs(PathsOf(r)) \cup {Newest(r).id},
             doc : DocumentPrefs(PathsOf(r))]

\* The statements of the cycle of r as it would run now.
OpsNow(r) ==
  CycleOps(determine_file_changes(r, cursor[r].last_commit_id,
                                  cursor[r].last_commit_time))

\* The beat schedule starts fetch_files.
Beat(limit) ==
  /\ fetchPos = 0
  /\ scrapePos = 0
  /\ cycles < limit
  /\ fetchPos' = 1
  /\ cycles' = cycles + 1
  /\ UNCHANGED <<commits, clock, pushes, checkpoints, documents, cursor,
                 pfJobs, embedJobs, nextJob, scrapePos, lastCycle, pfLog,
                 embedDead, faults, sg, search, call, pool>>

FetchTrigger == Beat(MaxCycles)

\* A tracker update without its project filter: every row is overwritten.
TrackerTable_NoFilter(r, row) ==
  IF row = cursor[r] THEN cursor ELSE [x \in Repos |-> row]

\* Lines 167-173: the commit_tracker table after the row of project r is
\* updated (where project_id == r) or created.
TrackerTable(r, row) == [cursor EXCEPT ![r] = row]

\* One iteration of the loop of fetch_files: the cycle of repository r.
\* failAt = 0: change resolution raises; failAt = i: statement i raises for a
\* reason outside the program (database or broker); larger: none does.
FetchRepo(r, failAt, pref) ==
  /\ fetchPos = r
  /\ LET tracker == cursor[r]
         last_commit == tracker.last_commit_id
         last_time == tracker.last_commit_time
         ch == determine_file_changes(r, last_commit, last_time)
         ops == CycleOps(ch)
         st0 == [cps |-> checkpoints, docs |-> documents, jobs |-> pfJobs,
                 next |-> nextJob, cur |-> tracker, raised |-> FALSE, done |-> 0]
         st == IF failAt = 0 THEN [st0 EXCEPT !.raised = TRUE]
               ELSE RunOps(ops, 1, st0, r, ch.latest_commit, failAt, pref)
     IN /\ checkpoints' = st.cps
        /\ documents' = st.docs
        /\ pfJobs' = st.jobs
        /\ nextJob' = st.next
        /\ cursor' = TrackerTable(r, st.cur)
        /\ lastCycle' = [repo |-> r,
                         resolved |-> failAt # 0,
                         to_process |-> IF failAt = 0 THEN {} ELSE ch.to_process,
                         to_delete |-> IF failAt = 0 THEN {} ELSE ch.to_delete,
                         latest |-> IF failAt = 0 THEN 0 ELSE ch.latest_commit,
                         raised |-> st.raised,
                         done |-> st.done,
                         first |-> tracker = NoTracker,
                         inspected |-> IF failAt = 0 THEN {} ELSE ch.inspected,
                         stopped |-> failAt # 0 /\ ch.stopped]
  /\ fetchPos' = IF r = NumRepos THEN 0 ELSE r + 1
  /\ faults' = IF failAt <= Len(OpsNow(r)) THEN faults + 1 ELSE faults
  /\ UNCHANGED <<commits, clock, pushes, embedJobs, scrapePos, cycles, pfLog,
                 embedDead, sg, search, call, pool>>

\* ---------------------------------------------- process_file (files_processor)

\* An except block whose update has no filter: every checkpoint is marked.
HandleProcessError_NoFilter(cps, j, msg) ==
  {[c EXCEPT !.state = PROCESS_ERROR, !.error_message = msg] : c \in cps}
    \cup {[commit_id |-> j.commit_sha, file_path |-> j.file_path,
            state |-> PROCESS_ERROR, error_message |-> msg]}

\* Lines 111-139, the except block: PROCESS_ERROR and the error text on the
\* checkpoint of (commit_sha, file_path), created when there is none.
HandleProcessError(cps, j, msg) ==
  LET m == {c \in cps : c.commit_id = j.commit_sha /\ c.file_path = j.file_path}
  IN IF m # {}
     THEN LET row == FirstCheckpoint(m, j.commit_sha)
          IN (cps \ {row}) \cup {[row EXCEPT !.state = PROCESS_ERROR,
                                             !.error_message = msg]}
     ELSE cps \cup {[commit_id |-> j.commit_sha, file_path |-> j.file_path,
                     state |-> PROCESS_ERROR, error_message |-> msg]}

\* A skip test that forgets the EMBEDDED state.
AlreadyProcessed_ProcessedOnly(cps, j) ==
  \E c \in cps : /\ c.commit_id = j.commit_sha
                 /\ c.file_path = j.file_path
                 /\ c.state = PROCESSED

\* Lines 61-73: the job is skipped when the checkpoint of its
\* (commit_sha, file_path) is PROCESSED or EMBEDDED.
AlreadyProcessed(cps, j) ==
  \E c \in cps : /\ c.commit_id = j.commit_sha
                 /\ c.file_path = j.file_path
                 /\ c.state \in {PROCESSED, EMBEDDED}

\* The job leaves the queue: "skipped" (the early return), "processed" (the
\* try block ran to its end) or "error" (the except block ran).
Finish(j, how) ==
  /\ pfJobs' = pfJobs \ {j}
  /\ pfLog' = pfLog \cup {[id |-> j.id, file_path |-> j.file_path,
                           commit_sha |-> j.commit_sha, outcome |-> how]}

\* Lines 36-48 and document_db.py 26-27: a row made from a chunk dict has
\* no content_vector and no content_tsv (vec, tsv: the column is not NULL).
Chunk(j, ver, i) ==
  [collection_id |-> j.collection_id, source |-> j.file_path,
   chunk_index |-> i, content |-> ver, vec |-> FALSE, tsv |-> FALSE]

\* A send that passes the index of the first chunk whatever the chunk.
EmbedJob_FirstIndex(j, i) ==
  [task |-> "embed_chunk", source |-> j.file_path, chunk_index |-> 0,
   collection_id |-> j.collection_id, retries |-> 0, by |-> j.id]

\* Lines 86-90: app.send_task("embed_chunk", args=[chunk["source"],
\* chunk["chunk_index"], chunk["collection_id"]]); by is history only, the
\* process_file job that sent the task.
EmbedJob(j, i) ==
  [task |-> "embed_chunk", source |-> j.file_path, chunk_index |-> i,
   collection_id |-> j.collection_id, retries |-> 0, by |-> j.id]

RECURSIVE InsertChunks(_, _, _, _)
\* Lines 84-90: create each chunk and send its embed_chunk task; the first
\* create that breaks uq_source_chunk raises.
InsertChunks(j, content, i, st) ==
  IF i >= content.size THEN st
  ELSE IF DocumentConflict(st.docs, Chunk(j, content.ver, i))
  THEN [st EXCEPT !.raised = TRUE]
  ELSE InsertChunks(j, content, i + 1,
         [st EXCEPT !.docs = @ \cup {Chunk(j, content.ver, i)},
                    !.sent = @ \cup {EmbedJob(j, i)}])

\* Lines 78-90: delete_resource(source == file_path), then the chunks.
ReplaceChunks(j, content, pref) ==
  InsertChunks(j, content, 0,
    [docs |-> delete_resource(documents,
                {d \in documents : d.source = j.file_path}, pref),
     sent |-> {}, raised |-> FALSE])

\* Lines 61-90: look the checkpoint up and return early, or fetch the content
\* at commit_sha, chunk it and replace the stored chunks. fetchOk = FALSE:
\* safe_get raises for a reason other than a 404 (retries exhausted, another
\* HTTP error).
ProcessFileIngest(j, fetchOk, pref) ==
  /\ j \in pfJobs
  /\ j.pc = "queued"
  /\ LET content == get_file_content(j.project_id, j.file_path, j.commit_sha)
         existing == \E c \in checkpoints :
                        c.commit_id = j.commit_sha /\ c.file_path = j.file_path
         \* history only: chunks of an earlier version were stored at the start
         stale == \E d \in documents :
                     d.source = j.file_path /\ d.content # content.ver
         st == ReplaceChunks(j, content, pref)
     IN IF AlreadyProcessed(checkpoints, j)
        THEN /\ Finish(j, "skipped")
             /\ UNCHANGED <<checkpoints, documents, embedJobs>>
        ELSE IF ~fetchOk \/ ~content.found
        THEN /\ Finish(j, "error")
             /\ checkpoints' = HandleProcessError(checkpoints, j, "HTTPError")
             /\ UNCHANGED <<documents, embedJobs>>
        ELSE /\ documents' = st.docs
             /\ embedJobs' = embedJobs \cup st.sent
             /\ IF st.raised
                THEN /\ Finish(j, "error")
                     /\ checkpoints' =
                          HandleProcessError(checkpoints, j, "IntegrityError")
                ELSE /\ pfJobs' = (pfJobs \ {j}) \cup
                           {[j EXCEPT !.pc = "checkpoint", !.existing = existing,
                                        !.stale = stale]}
                     /\ UNCHANGED <<checkpoints, pfLog>>
  /\ faults' = IF fetchOk \/ AlreadyProcessed(checkpoints, j)
                THEN faults ELSE faults + 1
  /\ UNCHANGED <<commits, clock, pushes, cursor, nextJob, fetchPos, scrapePos,
                 cycles, lastCycle, embedDead, sg, search, call, pool>>

\* Lines 92-107: the checkpoint becomes PROCESSED: updated where
\* (commit_sha, file_path) when one was found at the start, created otherwise.
ProcessFileCheckpoint(j) ==
  /\ j \in pfJobs
  /\ j.pc = "checkpoint"
  /\ LET m == {c \in checkpoints :
                 c.commit_id = j.commit_sha /\ c.file_path = j.file_path}
         new == [commit_id |-> j.commit_sha, file_path |-> j.file_path,
                 state |-> PROCESSED, error_message |-> None]
     IN IF j.existing
        THEN /\ checkpoints' =
                  IF m = {} THEN checkpoints
                  ELSE LET row == FirstCheckpoint(m, j.commit_sha)
                       IN (checkpoints \ {row}) \cup {[row EXCEPT !.state = PROCESSED]}
             /\ Finish(j, "processed")
        ELSE IF m # {}
        THEN /\ checkpoints' = HandleProcessError(checkpoints, j, "IntegrityError")
             /\ Finish(j, "error")
        ELSE /\ checkpoints' = checkpoints \cup {new}
             /\ Finish(j, "processed")
  /\ UNCHANGED <<commits, clock, pushes, documents, cursor, embedJobs, nextJob,
                 fetchPos, scrapePos, cycles, lastCycle, embedDead, faults, sg, search, call, pool>>

\* ------------------------------------------------------- embed_chunk (embed.py)

\* An update that writes the vector and leaves the tsvector as it is.
WriteVector_NoTsv(d) == [d EXCEPT !.vec = TRUE]

\* Lines 55-65: one update_resource writes content_vector and content_tsv
\* (to_tsvector('english', content)) of the chunk.
WriteVector(d) == [d EXCEPT !.vec = TRUE, !.tsv = TRUE]

\* Lines 67-73: EMBEDDED on the first checkpoint of the source that is not
\* DELETED.
MarkEmbedded(cps, source, pref) ==
  LET m == {c \in cps : c.file_path = source /\ c.state # DELETED}
  IN IF m = {} THEN cps
     ELSE LET row == FirstCheckpoint(m, pref)
          IN (cps \ {row}) \cup {[row EXCEPT !.state = EMBEDDED]}

\* Lines 77-82: the except block, run on every failed attempt.
MarkEmbedFailure(cps, source, pref) ==
  LET m == CheckpointsOf(cps, source)
  IN IF m = {} THEN cps
     ELSE LET row == FirstCheckpoint(m, pref)
          IN (cps \ {row}) \cup {[row EXCEPT !.state = ERROR,
                                             !.error_message = "EmbedError"]}

\* Line 83 with max_retries=3: self.retry re-queues the task until the
\* request has been retried max_retries times, then the task fails.
Retry(e) ==
  IF e.retries < EMBED_MAX_RETRIES
  THEN /\ embedJobs' = (embedJobs \ {e}) \cup {[e EXCEPT !.retries = @ + 1]}
       /\ UNCHANGED embedDead
  ELSE /\ embedJobs' = embedJobs \ {e}
       /\ embedDead' = embedDead \cup {e}

\* One execution of embed_chunk. ok = FALSE: the embedding model raises.
EmbedChunk(e, ok, pref) ==
  /\ e \in embedJobs
  /\ e.task = "embed_chunk"
  /\ LET chunk == {d \in documents : /\ d.source = e.source
                                     /\ d.chunk_index = e.chunk_index
                                     /\ d.collection_id = e.collection_id}
     IN IF chunk = {}
        THEN /\ embedJobs' = embedJobs \ {e}
             /\ UNCHANGED <<documents, checkpoints, embedDead>>
        ELSE IF ok
        THEN /\ documents' = (documents \ chunk) \cup
                               {WriteVector(d) : d \in chunk}
             /\ checkpoints' = MarkEmbedded(checkpoints, e.source, pref)
             /\ embedJobs' = embedJobs \ {e}
             /\ UNCHANGED embedDead
        ELSE /\ checkpoints' = MarkEmbedFailure(checkpoints, e.source, pref)
             /\ Retry(e)
             /\ UNCHANGED documents
  /\ faults' = IF ok \/ ~\E d \in documents : /\ d.source = e.source
                                               /\ d.chunk_index = e.chunk_index
                                               /\ d.collection_id = e.collection_id
                THEN faults ELSE faults + 1
  /\ UNCHANGED <<commits, clock, pushes, cursor, pfJobs, nextJob, fetchPos,
                 scrapePos, cycles, lastCycle, pfLog, sg, search, call, pool>>

\* --------------------------------------------------------------- the pipeline

InitialPath(r) == CHOOSE f \in PathsOf(r) : TRUE

NoCycle == [repo |-> 0, resolved |-> FALSE, to_process |-> {}, to_delete |-> {},
            latest |-> 0, raised |-> FALSE, done |-> 0, first |-> FALSE,
            inspected |-> {}, stopped |-> FALSE]

SgIdle == [pc |-> "idle", attempt |-> 0, requests |-> 0, waits |-> <<>>,
           statuses |-> <<>>]

SearchIdle == [pc |-> "idle"]

PoolIdle == [pc |-> "idle", status |-> <<>>, sleeps |-> 0]

CallIdle == [fn |-> "none"]

\* The remotes whose tracked file exists when the pipeline is first started;
\* the newest commit of the others has removed theirs.
InitialTrees == {1}

\* Empty tables, one initial commit per remote.
Init ==
  /\ commits \in [Repos -> {<<c>> : c \in
        {[id |-> i, time |-> i, path |-> f, deleted |-> del, size |-> n,
          other |-> NoPath] :
           i \in Repos, f \in Files, n \in 0..MaxChunks, del \in BOOLEAN}}]
  /\ \A r \in Repos : /\ commits[r][1].id = r
                       /\ commits[r][1].path = InitialPath(r)
                       /\ commits[r][1].size \in ContentSizes(r)
                       /\ commits[r][1].deleted = (r \notin InitialTrees)
  /\ clock = NumRepos + 1
  /\ pushes = 0
  /\ checkpoints = {}
  /\ documents = {}
  /\ cursor = [r \in Repos |-> NoTracker]
  /\ pfJobs = {}
  /\ embedJobs = {}
  /\ nextJob = 1
  /\ fetchPos = 0
  /\ scrapePos = 0
  /\ cycles = 0
  /\ lastCycle = NoCycle
  /\ pfLog = {}
  /\ embedDead = {}
  /\ faults = 0
  /\ sg = SgIdle
  /\ search = SearchIdle
  /\ call = CallIdle
  /\ pool = PoolIdle

\* The remotes that receive commits while the pipeline runs.
PushRepos == Repos

Next ==
  \/ \E r \in PushRepos, f \in Files, del \in BOOLEAN, n \in 0..MaxChunks :
       Push(r, f, del, n)
  \/ FetchTrigger
  \/ \E r \in Repos : \E failAt \in 0..(Len(OpsNow(r)) + 1), pref \in Prefs(r) :
       /\ failAt <= Len(OpsNow(r)) => faults < MaxFaults
       /\ FetchRepo(r, failAt, pref)
  \/ \E j \in pfJobs, fetchOk \in BOOLEAN :
       \E pref \in DocumentPrefs({j.file_path}) :
         /\ ~fetchOk => faults < MaxFaults
         /\ ProcessFileIngest(j, fetchOk, pref)
  \/ \E j \in pfJobs : ProcessFileCheckpoint(j)
  \/ \E e \in embedJobs, ok \in BOOLEAN :
       \E pref \in CheckpointPrefs({e.source}) :
         /\ ~ok => faults < MaxFaults
         /\ EmbedChunk(e, ok, pref)

Spec == Init /\ [][Next]_vars

\* ------------------------------------------------- fetch_files alone

\* The beat cycles against a remote that keeps receiving commits, while the
\* workers of the job queues are not running: the jobs stay queued.
PushHistory(r, f, del) == PushUpTo(MaxHistory, r, f, del, 1)

FetchBeat == Beat(MaxBeats)

NextFetch ==
  \/ \E r \in PushRepos, f \in Files, del \in BOOLEAN : PushHistory(r, f, del)
  \/ FetchBeat
  \/ \E r \in Repos : \E failAt \in 0..(Len(OpsNow(r)) + 1), pref \in Prefs(r) :
       /\ failAt <= Len(OpsNow(r)) => faults < MaxFaults
       /\ FetchRepo(r, failAt, pref)

SpecFetch == Init /\ [][NextFetch]_vars

\* A push of a commit that touches a tracked path and, beside it, a path
\* that is not tracked: its diff lists both.
PushOther(r, f, del, other) ==
  /\ pushes < MaxHistory
  /\ f \in PathsOf(r)
  /\ other \in OtherPaths(r)
  /\ del => ExistsAt(r, f, Newest(r).id)
  /\ commits' = [commits EXCEPT ![r] = Append(@,
                   [id |-> clock, time |-> clock, path |-> f,
                    deleted |-> del, size |-> 1, other |-> other])]
  /\ clock' = clock + 1
  /\ pushes' = pushes + 1
  /\ UNCHANGED <<checkpoints, documents, cursor, pfJobs, embedJobs, nextJob,
                 fetchPos, scrapePos, cycles, lastCycle, pfLog, embedDead,
                 faults, sg, search, call, pool>>

\* The beat cycles, with database and broker up, against a remote whose
\* commits each touch a tracked path and a path outside the tracked scope.
NextChanges ==
  \/ \E r \in PushRepos, f \in Files, del \in BOOLEAN :
       \E other \in OtherPaths(r) : PushOther(r, f, del, other)
  \/ FetchBeat
  \/ \E r \in Repos : \E pref \in Prefs(r) :
       FetchRepo(r, Len(OpsNow(r)) + 1, pref)

SpecChanges == Init /\ [][NextChanges]_vars

\* ------------------------------------------------- scrape_gitlab (worker.py)

\* worker.py get_tree_entries: an exception of the request is swallowed and
\* what was listed so far, here nothing, is returned.
scrape_get_tree_entries(r, treeOk) ==
  IF treeOk THEN get_tree_entries(r) ELSE {}

\* get_file_changes: the whole tree on a first run, else the diffs of the
\* commits after the cursor, and as deleted every path with a checkpoint
\* that is not DELETED and is not in the tree.
get_file_changes(r, last_commit, last_time, treeOk) ==
  LET current_files == scrape_get_tree_entries(r, treeOk)
      checkpoint_files ==
        {c.file_path : c \in {x \in checkpoints : x.state # DELETED}}
      walked == WalkCommits(r, get_commits(r, last_time), last_commit,
                            NoWalk)
  IN IF last_commit = NoCommit
     THEN [to_process |-> current_files, to_delete |-> {},
           inspected |-> {}, stopped |-> FALSE]
     ELSE [to_process |-> walked.changed,
           to_delete |-> walked.deleted \cup (checkpoint_files \ current_files),
           inspected |-> walked.inspected, stopped |-> walked.stopped]

ScrapeEmbedJob(c) ==
  [task |-> "gitlab_chatbot.tasks.embed", source |-> c.source,
   chunk_index |-> c.chunk_index, collection_id |-> c.collection_id,
   retries |-> 0, by |-> 0]

\* The except block of process_file_content: a new ERROR checkpoint is
\* created; uq_commit_file makes the create itself raise when the
\* (commit, path) row exists.
ScrapeHandleError(st, f, sha, msg) ==
  LET new == [commit_id |-> sha, file_path |-> f, state |-> ERROR,
              error_message |-> msg]
  IN IF CheckpointConflict(st.cps, {}, new)
     THEN [st EXCEPT !.raised = TRUE]
     ELSE [st EXCEPT !.cps = @ \cup {new}]

\* process_file_content, run by the thread pool for one path.
process_file_content(st, r, f, sha, fetchOk, pref) ==
  LET m == {c \in st.cps : c.commit_id = sha /\ c.file_path = f}
      coll == TRACKED_REPOS[r].collection_id
      content == get_file_content(r, f, sha)
      j == [id |-> 0, file_path |-> f, collection_id |-> coll]
      chunks == {Chunk(j, content.ver, i) : i \in 0..(content.size - 1)}
      kept == delete_resource(st.docs,
                {d \in st.docs : d.source = f /\ d.collection_id = coll}, pref)
      clash == \E c \in chunks : DocumentConflict(kept, c)
      inserted == [commit_id |-> sha, file_path |-> f, state |-> INSERTED,
                   error_message |-> None]
  IN IF \E c \in m : c.state \in {INSERTED, EMBEDDED} THEN st
     ELSE IF ~fetchOk \/ ~content.found
     THEN ScrapeHandleError(st, f, sha, "HTTPError")
     ELSE IF m = {}
     THEN IF clash
          THEN ScrapeHandleError([st EXCEPT !.docs = kept], f, sha,
                                 "IntegrityError")
          ELSE [st EXCEPT !.docs = kept \cup chunks,
                          !.cps = @ \cup {inserted},
                          !.sent = @ \cup {ScrapeEmbedJob(c) : c \in chunks}]
     ELSE LET row == FirstCheckpoint(m, sha)
          IN [st EXCEPT !.cps = (@ \ {row}) \cup
                                  {[row EXCEPT !.state = INSERTED]},
                        !.sent = @ \cup {ScrapeEmbedJob(c) : c \in chunks}]

RECURSIVE ScrapeProcess(_, _, _, _, _, _)
\* executor.map over the paths to process; the first exception that leaves
\* process_file_content is raised when the results are collected.
ScrapeProcess(ps, st, r, sha, fetchOk, pref) ==
  IF ps = <<>> \/ st.raised THEN st
  ELSE ScrapeProcess(Tail(ps),
         process_file_content(st, r, Head(ps), sha, fetchOk, pref),
         r, sha, fetchOk, pref)

RECURSIVE ScrapeDelete(_, _, _, _)
\* The loop over deleted_files: the first checkpoint of the path that is not
\* DELETED becomes DELETED, the first document of the path in the collection
\* of r is deleted.
ScrapeDelete(ps, st, r, pref) ==
  IF ps = <<>> THEN st
  ELSE LET f == Head(ps)
           m == {c \in st.cps : c.file_path = f /\ c.state # DELETED}
           cps1 == IF m = {} THEN st.cps
                   ELSE LET row == FirstCheckpoint(m, pref.deleted)
                        IN (st.cps \ {row}) \cup {[row EXCEPT !.state = DELETED]}
           docs1 == delete_resource(st.docs,
                      {d \in st.docs :
                         /\ d.source = f
                         /\ d.collection_id = TRACKED_REPOS[r].collection_id},
                      pref.doc)
       IN ScrapeDelete(Tail(ps), [st EXCEPT !.cps = cps1, !.docs = docs1],
                       r, pref)

\* scrape_gitlab is started (run_worker.py, or its beat schedule).
ScrapeTrigger ==
  /\ scrapePos = 0
  /\ fetchPos = 0
  /\ cycles < MaxCycles
  /\ scrapePos' = 1
  /\ cycles' = cycles + 1
  /\ UNCHANGED <<commits, clock, pushes, checkpoints, documents, cursor,
                 pfJobs, embedJobs, nextJob, fetchPos, lastCycle, pfLog,
                 embedDead, faults, sg, search, call, pool>>

\* One iteration of the loop of scrape_gitlab. The try block encloses the
\* loop and its except block raises again: an exception in the iteration of
\* r ends the task, whatever repositories are left. resolveOk = FALSE:
\* get_project_id, get_commits or get_commit_diff raises.
ScrapeRepo(r, resolveOk, treeOk, fetchOk, pref) ==
  /\ scrapePos = r
  /\ LET tracker == cursor[r]
         ch == get_file_changes(r, tracker.last_commit_id,
                                tracker.last_commit_time, treeOk)
         latest_commit == get_commits(r, NoCommit)[1]
         st0 == [cps |-> checkpoints, docs |-> documents, sent |-> {},
                 raised |-> FALSE]
         st1 == ScrapeProcess(SortedPaths(ch.to_process), st0, r,
                              latest_commit.id, fetchOk, pref.doc)
         st2 == IF st1.raised THEN st1
                ELSE ScrapeDelete(SortedPaths(ch.to_delete), st1, r, pref)
         raised == ~resolveOk \/ st2.raised
     IN /\ checkpoints' = IF resolveOk THEN st2.cps ELSE checkpoints
        /\ documents' = IF resolveOk THEN st2.docs ELSE documents
        /\ embedJobs' = IF resolveOk THEN embedJobs \cup st2.sent ELSE embedJobs
        /\ cursor' = IF raised THEN cursor
                     ELSE [cursor EXCEPT ![r] =
                             [last_commit_id |-> latest_commit.id,
                              last_commit_time |-> latest_commit.time]]
        /\ lastCycle' = [repo |-> r,
                         resolved |-> resolveOk,
                         to_process |-> IF resolveOk THEN ch.to_process ELSE {},
                         to_delete |-> IF resolveOk THEN ch.to_delete ELSE {},
                         latest |-> IF resolveOk THEN latest_commit.id ELSE 0,
                         raised |-> raised,
                         done |-> 0,
                         first |-> tracker = NoTracker,
                         inspected |-> IF resolveOk THEN ch.inspected ELSE {},
                         stopped |-> resolveOk /\ ch.stopped]
        /\ scrapePos' = IF raised \/ r = NumRepos THEN 0 ELSE r + 1
  /\ faults' = IF resolveOk /\ treeOk /\ fetchOk THEN faults ELSE faults + 1
  /\ UNCHANGED <<commits, clock, pushes, pfJobs, nextJob, fetchPos, cycles,
                 pfLog, embedDead, sg, search, call, pool>>

NextScrape ==
  \/ \E r \in PushRepos, f \in Files, del \in BOOLEAN, n \in 0..MaxChunks :
       Push(r, f, del, n)
  \/ ScrapeTrigger
  \/ \E r \in Repos, resolveOk \in BOOLEAN, treeOk \in BOOLEAN,
        fetchOk \in BOOLEAN :
       \E pref \in Prefs(r) :
         /\ ~(resolveOk /\ treeOk /\ fetchOk) => faults < MaxFaults
         /\ ScrapeRepo(r, resolveOk, treeOk, fetchOk, pref)

SpecScrape == Init /\ [][NextScrape]_vars

\* The two scheduled tasks over the same tables: both modules register a
\* beat entry, and both keep their cursor in the commit tracker.
ScrapeBeat ==
  /\ scrapePos = 0
  /\ fetchPos = 0
  /\ cycles < MaxBeats
  /\ scrapePos' = 1
  /\ cycles' = cycles + 1
  /\ UNCHANGED <<commits, clock, pushes, checkpoints, documents, cursor,
                 pfJobs, embedJobs, nextJob, fetchPos, lastCycle, pfLog,
                 embedDead, faults, sg, search, call, pool>>

NextWalk ==
  \/ \E r \in PushRepos, f \in Files, del \in BOOLEAN : PushHistory(r, f, del)
  \/ FetchBeat
  \/ ScrapeBeat
  \/ \E r \in Repos : \E pref \in Prefs(r) :
       FetchRepo(r, Len(OpsNow(r)) + 1, pref)
  \/ \E r \in Repos : \E pref \in Prefs(r) :
       ScrapeRepo(r, TRUE, TRUE, TRUE, pref)

SpecWalk == Init /\ [][NextWalk]_vars

\* The cycle of repository r while upstream is pushed to: a commit lands
\* after determine_file_changes has returned (lines 96-98) and before the
\* cursor is written with datetime.utcnow() (lines 162-173). No statement
\* of the cycle raises.
FetchRepoWhilePushed(r, f, del, pref) ==
  /\ fetchPos = r
  /\ pushes < MaxHistory
  /\ f \in PathsOf(r)
  /\ del => ExistsAt(r, f, Newest(r).id)
  /\ LET tracker == cursor[r]
         ch == determine_file_changes(r, tracker.last_commit_id,
                                      tracker.last_commit_time)
         ops == CycleOps(ch)
         st0 == [cps |-> checkpoints, docs |-> documents, jobs |-> pfJobs,
                 next |-> nextJob, cur |-> tracker, raised |-> FALSE, done |-> 0]
         st == RunOps(ops, 1, st0, r, ch.latest_commit, Len(ops) + 1, pref)
         utcnow == clock + 1
     IN /\ checkpoints' = st.cps
        /\ documents' = st.docs
        /\ pfJobs' = st.jobs
        /\ nextJob' = st.next
        /\ cursor' = TrackerTable(r,
                        IF st.raised THEN st.cur
                        ELSE [st.cur EXCEPT !.last_commit_time = utcnow])
        /\ lastCycle' = [repo |-> r,
                         resolved |-> TRUE,
                         to_process |-> ch.to_process,
                         to_delete |-> ch.to_delete,
                         latest |-> ch.latest_commit,
                         raised |-> st.raised,
                         done |-> st.done,
                         first |-> tracker = NoTracker,
                         inspected |-> ch.inspected,
                         stopped |-> ch.stopped]
  /\ commits' = [commits EXCEPT ![r] = Append(@,
                   [id |-> clock, time |-> clock, path |-> f, deleted |-> del,
                    size |-> CHOOSE k \in ContentSizes(r) : TRUE,
                    other |-> NoPath])]
  /\ clock' = clock + 1
  /\ pushes' = pushes + 1
  /\ fetchPos' = IF r = NumRepos THEN 0 ELSE r + 1
  /\ UNCHANGED <<embedJobs, scrapePos, cycles, pfLog, embedDead, faults, sg,
                 search, call, pool>>

NextLanding ==
  \/ \E r \in PushRepos, f \in Files, del \in BOOLEAN : PushHistory(r, f, del)
  \/ FetchBeat
  \/ \E r \in Repos : \E pref \in Prefs(r) :
       FetchRepo(r, Len(OpsNow(r)) + 1, pref)
  \/ \E r \in Repos, f \in Files, del \in BOOLEAN : \E pref \in Prefs(r) :
       FetchRepoWhilePushed(r, f, del, pref)

SpecLanding == Init /\ [][NextLanding]_vars

\* ------------------------------------------------- the embedding queue alone

\* The pipeline after its first beat: the file of the first remote has been
\* processed at its initial commit and its embed_chunk tasks are queued.
InitEmbed ==
  LET f == InitialPath(1)
      j == [id |-> 1, project_id |-> 1, file_path |-> f, commit_sha |-> 1,
            collection_id |-> TRACKED_REPOS[1].collection_id]
  IN /\ commits = [r \in Repos |->
                     <<[id |-> r, time |-> r, path |-> InitialPath(r),
                        deleted |-> (r \notin InitialTrees),
                        size |-> IF r = 1 THEN MaxChunks ELSE 1,
                        other |-> NoPath]>>]
     /\ clock = NumRepos + 1
     /\ pushes = 0
     /\ checkpoints = {[commit_id |-> 1, file_path |-> f, state |-> PROCESSED,
                        error_message |-> None]}
     /\ documents = {Chunk(j, 1, i) : i \in 0..(MaxChunks - 1)}
     /\ cursor = [r \in Repos |-> [last_commit_id |-> r,
                                   last_commit_time |-> NumRepos + 1]]
     /\ pfJobs = {}
     /\ embedJobs = {EmbedJob(j, i) : i \in 0..(MaxChunks - 1)}
     /\ nextJob = 2
     /\ fetchPos = 0
     /\ scrapePos = 0
     /\ cycles = 1
     /\ lastCycle = [repo |-> NumRepos, resolved |-> TRUE, to_process |-> {},
                     to_delete |-> {}, latest |-> NumRepos, raised |-> FALSE,
                     done |-> 1, first |-> TRUE, inspected |-> {},
                     stopped |-> FALSE]
     /\ pfLog = {[id |-> 1, file_path |-> f, commit_sha |-> 1,
                  outcome |-> "processed"]}
     /\ embedDead = {}
     /\ faults = 0
     /\ sg = SgIdle
     /\ search = SearchIdle
     /\ call = CallIdle
     /\ pool = PoolIdle

\* The worker of the "embedding" queue: any queued task may run next, and
\* the embedding model may fail on any attempt.
NextEmbed ==
  \E e \in embedJobs, ok \in BOOLEAN :
    \E pref \in CheckpointPrefs({e.source}) : EmbedChunk(e, ok, pref)

SpecEmbed == InitEmbed /\ [][NextEmbed]_vars

\* ------------------------------------------------- safe_get (gitlab_utils)

\* The status codes the remote answers with.
Statuses == {200, 401, 404, 429, 500, 503}

backoff == 2

\* A test that sends every error status to the sleep.
Retryable_AnyError(status) == status >= 400

\* Line 22: the statuses that are retried.
Retryable(status) == status = GITLAB_RATE_LIMIT \/ status >= 500

\* A delay that does not grow.
Wait_Constant(attempt) == backoff

\* Line 22 (worker.py line 53): wait = backoff**attempt
Wait(attempt) == backoff ^ attempt

\* safe_get is called: the loop starts at attempt 0.
SafeGetCall ==
  /\ sg.pc \in {"idle", "returned", "http_error", "exhausted"}
  /\ sg' = [pc |-> "request", attempt |-> 0, requests |-> 0, waits |-> <<>>,
            statuses |-> <<>>]
  /\ UNCHANGED <<pipeVars, search, call, pool>>

\* Lines 20-28: one request and the test of its status: a retryable status
\* goes to the sleep, another error status leaves through raise_for_status,
\* anything else is returned.
SafeGetRequest(status) ==
  /\ sg.pc = "request"
  /\ sg.attempt < MAX_RETRIES
  /\ sg' = [sg EXCEPT !.requests = @ + 1,
                      !.statuses = Append(@, status),
                      !.pc = IF Retryable(status) THEN "sleep"
                             ELSE IF status >= 400 THEN "http_error"
                             ELSE "returned"]
  /\ UNCHANGED <<pipeVars, search, call, pool>>

\* Lines 22-25 and 29: the sleep, then the next attempt, or the exception
\* after the loop when the attempts are used up.
SafeGetSleep ==
  /\ sg.pc = "sleep"
  /\ sg' = [sg EXCEPT !.waits = Append(@, Wait(sg.attempt)),
                      !.attempt = @ + 1,
                      !.pc = IF sg.attempt + 1 < MAX_RETRIES THEN "request"
                             ELSE "exhausted"]
  /\ UNCHANGED <<pipeVars, search, call, pool>>

NextSafeGet ==
  \/ SafeGetCall
  \/ \E status \in Statuses : SafeGetRequest(status)
  \/ SafeGetSleep

SpecSafeGet == Init /\ [][NextSafeGet]_vars

\* --------------------------------------- the read path (utils/hybrid_search)

\* pg_indexes of table documents: the indexes that Document.__table_args__
\* declares, each name cut at the places where LIKE '%tsv%' can match.
IndexNames == {<<"uq_source_chunk">>, <<"idx_", "vector", "_search">>,
               <<"idx_", "tsv", "_search">>}

\* indexname LIKE '%tsv%'
LikeTsv(name) == \E i \in 1..Len(name) : name[i] = "tsv"

\* An index test that always takes the hybrid branch.
has_fulltext_index_Always(indexes) == TRUE

\* has_fulltext_index: COUNT(*) of the indexes whose name is LIKE '%tsv%'.
has_fulltext_index(indexes) ==
  LET count == Cardinality({n \in indexes : LikeTsv(n)})
  IN count > 0

\* content_vector <=> :vec, the cosine distance to the query, in tenths.
Distances == {2, 8, 15}

\* ts_rank(content_tsv, plainto_tsquery(:q)) in tenths; it is 0 exactly for
\* a row that content_tsv @@ plainto_tsquery(:q) does not select.
Ranks == {0, 5}

\* A score that leaves the lexical term out.
FinalScore_VectorOnly(distance, rank) == VECTOR_WEIGHT * (One - distance)

\* Lines 42-43: the fused score of the hybrid branch, in hundredths.
FinalScore(distance, rank) ==
  VECTOR_WEIGHT * (One - distance) + TEXT_WEIGHT * rank

\* Line 58: the score of the fallback branch, 1 - distance, in hundredths.
VectorScore(distance) == One * (One - distance)

RECURSIVE Perms(_)
Perms(S) ==
  IF S = {} THEN {<<>>}
  ELSE UNION {{<<x>> \o p : p \in Perms(S \ {x})} : x \in S}

\* ORDER BY final_score DESC: every order of the rows in which the score
\* does not increase; the database breaks ties as it likes.
OrderByScoreDesc(rows, score) ==
  {p \in Perms(rows) :
     \A i \in 1..(Len(p) - 1) : score[p[i]] >= score[p[i + 1]]}

\* LIMIT :k
Limit(p, k) == SubSeq(p, 1, IF k < Len(p) THEN k ELSE Len(p))

\* A statement without its WHERE clause on the tsvector.
HybridRows_NoMatchFilter(docs, rank) == {d \in docs : d.vec}

\* Lines 38-52: the rows the hybrid statement selects and their scores. A
\* row that no embed_chunk has written has neither vector nor tsvector.
HybridRows(docs, rank) == {d \in docs : d.tsv /\ rank[d] > 0}

\* Lines 54-63: the rows the fallback statement selects.
FallbackRows(docs) == {d \in docs : d.vec}

\* hybrid_search: the branches it can return from, as the set of results
\* (sequences of rows with their final_score) the database may answer with.
hybrid_search(docs, indexes, distance, rank, top_k) ==
  LET hybrid == has_fulltext_index(indexes)
      rows == IF hybrid THEN HybridRows(docs, rank) ELSE FallbackRows(docs)
      score == [d \in rows |->
                  IF hybrid THEN FinalScore(distance[d], rank[d])
                  ELSE VectorScore(distance[d])]
  IN {[i \in 1..Len(p) |-> [row |-> p[i], final_score |-> score[p[i]]]] :
        p \in {Limit(q, top_k) : q \in OrderByScoreDesc(rows, score)}}

\* The paths of the store, cut at the places where build_source_url can cut.
PathTokens(f) ==
  IF f = "content/handbook/a.md" THEN <<"content/handbook/", "a", ".md">>
  ELSE <<"source/direction/", "b", ".md">>

\* str.removeprefix, str.removesuffix and str.replace(old, "")
removeprefix(s, prefix) ==
  IF s # <<>> /\ Head(s) = prefix THEN Tail(s) ELSE s

removesuffix(s, suffix) ==
  IF s # <<>> /\ s[Len(s)] = suffix THEN SubSeq(s, 1, Len(s) - 1) ELSE s

Replace(s, old) == SelectSeq(s, LAMBDA t : t # old)

build_source_url(collection_id, file_path) ==
  IF collection_id = "handbook"
  THEN LET relative_path ==
             removesuffix(removeprefix(file_path, "content/handbook/"), ".md")
           url_path ==
             Replace(Replace(Replace(relative_path, ".md"), "_index"),
                     "README")
       IN <<"https://handbook.gitlab.com/">> \o url_path
  ELSE IF collection_id = "direction"
  THEN LET relative_path ==
             removesuffix(removeprefix(file_path, "source/direction/"), ".md")
           url_path ==
             Replace(Replace(Replace(relative_path, ".md"), "_index"),
                     "README")
       IN <<"https://about.gitlab.com/direction/">> \o url_path
  ELSE file_path

\* The text of a stored chunk: the content of its file at the commit that
\* wrote it.
ContentText(d) == ToString(d.content)

RECURSIVE Join(_, _)
\* sep.join(parts); the empty string is <<>>
Join(parts, sep) ==
  IF parts = <<>> THEN <<>>
  ELSE IF Len(parts) = 1 THEN <<parts[1]>>
  ELSE <<parts[1], sep>> \o Join(Tail(parts), sep)

\* Sources that leave the first match out.
RagSources_SkipFirst(matches) ==
  {build_source_url(matches[i].row.collection_id,
                    PathTokens(matches[i].row.source)) :
     i \in 2..Len(matches)}

\* Lines 94-97: the set the loop over the matches collects.
RagSources(matches) ==
  {build_source_url(matches[i].row.collection_id,
                    PathTokens(matches[i].row.source)) :
     i \in 1..Len(matches)}

\* Lines 93-98: the joined contents of the matches, in their order.
RagContext(matches) ==
  Join([i \in 1..Len(matches) |-> ContentText(matches[i].row)], "\n")

\* The result of one call: who was called, with which inputs (the index
\* catalogue, the distance and rank of every embedded row for the query,
\* top_k, whether the database answered), and what came back.
SearchResult(fn, indexes, distance, rank, top_k, ok, pc, matches, context, sources, listed) ==
  [pc |-> pc, fn |-> fn, indexes |-> indexes, distance |-> distance,
   rank |-> rank, top_k |-> top_k, ok |-> ok, matches |-> matches,
   context |-> context, sources |-> sources, listed |-> listed]

\* The values top_k takes: the defaults of the two callers and small ones
\* that cut the result.
TopKs == 1..MaxTopK

\* hybrid_search(session, query, top_k): one statement; it returns what the
\* database answers, or raises what the database raises (ok = FALSE).
HybridSearch(indexes, distance, rank, top_k, ok) ==
  /\ search.pc = "idle"
  /\ search' \in
       IF ok
       THEN {SearchResult("hybrid_search", indexes, distance, rank, top_k, ok,
                          "returned", m, <<>>, {}, <<>>) :
               m \in hybrid_search(documents, indexes, distance, rank, top_k)}
       ELSE {SearchResult("hybrid_search", indexes, distance, rank, top_k, ok,
                          "raised", <<>>, <<>>, {}, <<>>)}
  /\ UNCHANGED <<pipeVars, sg, call, pool>>

\* generate_rag_context(session, query, top_k): hybrid_search, then the loop
\* over its rows; an exception of hybrid_search leaves through it.
GenerateRagContext(indexes, distance, rank, top_k, ok) ==
  /\ search.pc = "idle"
  /\ search' \in
       IF ok
       THEN {SearchResult("generate_rag_context", indexes, distance, rank,
                          top_k, ok, "returned", m, RagContext(m), RagSources(m),
                          <<>>) :
               m \in hybrid_search(documents, indexes, distance, rank, top_k)}
       ELSE {SearchResult("generate_rag_context", indexes, distance, rank,
                          top_k, ok, "raised", <<>>, <<>>, {}, <<>>)}
  /\ UNCHANGED <<pipeVars, sg, call, pool>>

\* hybrid_gitlab_search(query) of routes/chatbot/route.py: a blank query and
\* an exception both answer with the empty content and no sources; list()
\* of the set puts the sources in any order.
HybridGitlabSearch(blank, indexes, distance, rank, ok) ==
  /\ search.pc = "idle"
  /\ search' \in
       IF blank \/ ~ok
       THEN {SearchResult("hybrid_gitlab_search", indexes, distance, rank,
                          RAG_TOP_K, ok, "returned", <<>>, <<>>, {}, <<>>)}
       ELSE UNION
              {{SearchResult("hybrid_gitlab_search", indexes, distance, rank,
                             RAG_TOP_K, ok, "returned", m, RagContext(m),
                             RagSources(m), l) : l \in Perms(RagSources(m))} :
                 m \in hybrid_search(documents, indexes, distance, rank,
                                     RAG_TOP_K)}
  /\ UNCHANGED <<pipeVars, sg, call, pool>>

RECURSIVE ExtendSources(_)
\* Lines 137-143 of route.py: all_sources.extend(output["sources"]) over the
\* tool outputs, each the list that hybrid_gitlab_search returned.
ExtendSources(tool_outputs) ==
  IF tool_outputs = <<>> THEN <<>>
  ELSE Head(tool_outputs) \o ExtendSources(Tail(tool_outputs))

RECURSIVE UniqueSources(_, _)
\* Lines 148-154: a source is appended the first time it is seen.
UniqueSources(all_sources, seen) ==
  IF all_sources = <<>> THEN <<>>
  ELSE IF Head(all_sources) \in seen
  THEN UniqueSources(Tail(all_sources), seen)
  ELSE <<Head(all_sources)>>
         \o UniqueSources(Tail(all_sources), seen \cup {Head(all_sources)})

\* format_sources_from_tool_result: the list of sources of an answer.
format_sources_from_tool_result(tool_outputs) ==
  UniqueSources(ExtendSources(tool_outputs), {})

\* A row of table documents as process_file and embed_chunk leave it.
StoredRow(f, ver, i, v) ==
  [collection_id |-> TRACKED_REPOS[RepoOfPath(f)].collection_id, source |-> f,
   chunk_index |-> i, content |-> ver, vec |-> v, tsv |-> v]

\* The embed_chunk task of a stored row, after its last retry.
DeadEmbedJob(d, by) ==
  [task |-> "embed_chunk", source |-> d.source, chunk_index |-> d.chunk_index,
   collection_id |-> d.collection_id, retries |-> EMBED_MAX_RETRIES, by |-> by]

\* The state of the checkpoint of a processed file once its embed_chunk
\* tasks are over: the last of them to succeed wrote EMBEDDED.
StoreState(rows) ==
  IF rows = {} THEN PROCESSED
  ELSE IF \E d \in rows : d.vec THEN EMBEDDED ELSE ERROR

\* The stores the pipeline hands to the read path once it is quiet: the
\* file of the first remote processed at its initial commit, the file of
\* the second remote absent or pushed and processed, and every chunk with
\* its vector or, where embed_chunk has failed for good, without.
InitSearch ==
  \E n \in 0..MaxChunks, va \in [ChunkIdx -> BOOLEAN], hasB, vb \in BOOLEAN :
    LET fa == InitialPath(1)
        fb == InitialPath(NumRepos)
        idB == NumRepos + 1
        rowsA == {StoredRow(fa, 1, i, va[i]) : i \in 0..(n - 1)}
        rowsB == IF hasB THEN {StoredRow(fb, idB, 0, vb)} ELSE {}
        first(r) == [id |-> r, time |-> r, path |-> InitialPath(r),
                     deleted |-> (r \notin InitialTrees),
                     size |-> IF r = 1 THEN n ELSE 1, other |-> NoPath]
        cp(f, id, rows) ==
          [commit_id |-> id, file_path |-> f, state |-> StoreState(rows),
           error_message |-> IF StoreState(rows) = ERROR THEN "EmbedError"
                             ELSE None]
        dead == {DeadEmbedJob(d, 1) : d \in {x \in rowsA : ~x.vec}} \cup
                {DeadEmbedJob(d, 2) : d \in {x \in rowsB : ~x.vec}}
    IN /\ \A i \in ChunkIdx : i >= n => ~va[i]
       /\ ~hasB => ~vb
       /\ commits = [r \in Repos |->
                       IF r = NumRepos /\ hasB
                       THEN <<first(r), [id |-> idB, time |-> idB, path |-> fb,
                                         deleted |-> FALSE, size |-> 1,
                                         other |-> NoPath]>>
                       ELSE <<first(r)>>]
       /\ clock = IF hasB THEN idB + 1 ELSE idB
       /\ pushes = IF hasB THEN 1 ELSE 0
       /\ checkpoints = {cp(fa, 1, rowsA)} \cup
                          (IF hasB THEN {cp(fb, idB, rowsB)} ELSE {})
       /\ documents = rowsA \cup rowsB
       /\ cursor = [r \in Repos |->
                      [last_commit_id |-> IF r = NumRepos /\ hasB THEN idB
                                          ELSE r,
                       last_commit_time |-> IF hasB THEN idB + 1 ELSE idB]]
       /\ pfJobs = {}
       /\ embedJobs = {}
       /\ nextJob = IF hasB THEN 3 ELSE 2
       /\ fetchPos = 0
       /\ scrapePos = 0
       /\ cycles = IF hasB THEN 2 ELSE 1
       /\ lastCycle = [repo |-> NumRepos, resolved |-> TRUE,
                        to_process |-> IF hasB THEN {fb} ELSE {},
                        to_delete |-> {},
                        latest |-> IF hasB THEN idB ELSE NumRepos,
                        raised |-> FALSE, done |-> IF hasB THEN 3 ELSE 1,
                        first |-> ~hasB,
                        inspected |-> IF hasB THEN {idB} ELSE {},
                        stopped |-> FALSE]
       /\ pfLog = {[id |-> 1, file_path |-> fa, commit_sha |-> 1,
                     outcome |-> "processed"]} \cup
                    (IF hasB THEN {[id |-> 2, file_path |-> fb,
                                    commit_sha |-> idB,
                                    outcome |-> "processed"]}
                     ELSE {})
       /\ embedDead = dead
       /\ faults = (EMBED_MAX_RETRIES + 1) * Cardinality(dead)
       /\ sg = SgIdle
       /\ search = SearchIdle
       /\ call = CallIdle
       /\ pool = PoolIdle

\* The inputs of a query: what the catalogue holds, and for every embedded
\* row its distance to the query and its rank for it.
Embedded == {d \in documents : d.vec}

\* What pg_indexes may hold when a call is made; the read path is called
\* once, so nothing is drawn after the call.
Catalogues == IF search.pc = "idle" THEN SUBSET IndexNames ELSE {}

NextSearch ==
  \E indexes \in Catalogues, distance \in [Embedded -> Distances],
     rank \in [Embedded -> Ranks], ok \in BOOLEAN :
    \/ \E top_k \in TopKs \cup {TOP_K} :
         HybridSearch(indexes, distance, rank, top_k, ok)
    \/ \E top_k \in TopKs \cup {RAG_TOP_K} :
         GenerateRagContext(indexes, distance, rank, top_k, ok)
    \/ \E blank \in BOOLEAN :
         HybridGitlabSearch(blank, indexes, distance, rank, ok)

SpecSearch == InitSearch /\ [][NextSearch]_vars

\* ---------------------------------------------- build_source_url alone

\* What a path is made of between its root and its last suffix: segment
\* names, the separator, the two names build_source_url looks for, a tail
\* that continues a name, and the suffix.
PathAtoms == {"security", "/", "_index", "README", "-template", ".md"}

PathRoots == {<<>>, <<"content/handbook/">>, <<"source/direction/">>}

PathSuffixes == {<<>>, <<".md">>}

RelativePaths == UNION {[1..n -> PathAtoms] : n \in 0..MaxPathLen}

CollectionIds == {"handbook", "direction", "other"}

\* The arguments a call may get; a helper is called once.
UrlArguments ==
  IF call.fn = "none"
  THEN {[collection_id |-> c, file_path |-> root \o rel \o suffix] :
          c \in CollectionIds, root \in PathRoots, rel \in RelativePaths,
          suffix \in PathSuffixes}
  ELSE {}

\* build_source_url(collection_id, file_path)
BuildSourceUrl(collection_id, file_path) ==
  /\ call.fn = "none"
  /\ call' = [fn |-> "build_source_url", collection_id |-> collection_id,
               file_path |-> file_path,
               url |-> build_source_url(collection_id, file_path)]
  /\ UNCHANGED <<pipeVars, sg, search, pool>>

NextUrl == \E a \in UrlArguments : BuildSourceUrl(a.collection_id, a.file_path)

SpecUrl == Init /\ [][NextUrl]_vars

\* --------------------------------------------------- chunk_content alone

\* A text is a sequence of pieces: a run of characters from..to of the word
\* at place w of the text (ch = ""), or one whitespace character ch (w = 0).
\* Every word has its own characters and none of them is whitespace.
WordPiece(w, from, to) == [w |-> w, from |-> from, to |-> to, ch |-> ""]

Whitespace(ch) == [w |-> 0, from |-> 1, to |-> 1, ch |-> ch]

Blank == Whitespace(" ")

IsWhitespace(t) == t.w = 0

\* len()
PieceLen(t) == t.to - t.from + 1

RECURSIVE TextLen(_)
TextLen(s) == IF s = <<>> THEN 0 ELSE PieceLen(Head(s)) + TextLen(Tail(s))

\* s[:k] and s[k:]
RECURSIVE TakeChars(_, _)
TakeChars(s, k) ==
  IF k <= 0 \/ s = <<>> THEN <<>>
  ELSE IF PieceLen(Head(s)) <= k
  THEN <<Head(s)>> \o TakeChars(Tail(s), k - PieceLen(Head(s)))
  ELSE <<[Head(s) EXCEPT !.to = Head(s).from + k - 1]>>

RECURSIVE DropChars(_, _)
DropChars(s, k) ==
  IF k <= 0 \/ s = <<>> THEN s
  ELSE IF PieceLen(Head(s)) <= k
  THEN DropChars(Tail(s), k - PieceLen(Head(s)))
  ELSE <<[Head(s) EXCEPT !.from = @ + k]>> \o Tail(s)

\* Two runs of one word that touch are one run.
RECURSIVE Glue(_)
Glue(s) ==
  IF Len(s) < 2 THEN s
  ELSE IF /\ ~IsWhitespace(s[1]) /\ s[1].w = s[2].w /\ s[1].to + 1 = s[2].from
  THEN Glue(<<[s[1] EXCEPT !.to = s[2].to]>> \o SubSeq(s, 3, Len(s)))
  ELSE <<s[1]>> \o Glue(Tail(s))

\* str.strip()
RECURSIVE LStrip(_)
LStrip(s) ==
  IF s # <<>> /\ IsWhitespace(Head(s)) THEN LStrip(Tail(s)) ELSE s

RECURSIVE RStrip(_)
RStrip(s) ==
  IF s # <<>> /\ IsWhitespace(s[Len(s)])
  THEN RStrip(SubSeq(s, 1, Len(s) - 1)) ELSE s

Strip(s) == LStrip(RStrip(s))

\* whitespace_pattern.sub(" ", text): every run of whitespace becomes one
\* blank.
RECURSIVE SubWhitespace(_)
SubWhitespace(s) ==
  IF s = <<>> THEN <<>>
  ELSE IF IsWhitespace(Head(s))
  THEN <<Blank>> \o SubWhitespace(LStrip(s))
  ELSE <<Head(s)>> \o SubWhitespace(Tail(s))

\* clean_text (files_processor.py 32-33)
clean_text(text) == Strip(SubWhitespace(text))

\* The splits of RecursiveCharacterTextSplitter for the separator " " with
\* keep_separator=True: the text is cut before every blank, the blank stays
\* at the head of the split it starts, and empty splits are dropped.
RECURSIVE SplitAtBlanks(_, _)
SplitAtBlanks(s, cur) ==
  IF s = <<>> THEN (IF cur = <<>> THEN <<>> ELSE <<cur>>)
  ELSE IF Head(s) = Blank
  THEN (IF cur = <<>> THEN <<>> ELSE <<cur>>) \o
       SplitAtBlanks(Tail(s), <<Blank>>)
  ELSE SplitAtBlanks(Tail(s), Append(cur, Head(s)))

RECURSIVE Concat(_)
Concat(ss) == IF ss = <<>> THEN <<>> ELSE Head(ss) \o Concat(Tail(ss))

\* _join_docs with the separator "" and strip_whitespace=True: the joined
\* splits, stripped; nothing when that is empty.
JoinDocs(cur) ==
  IF Strip(Concat(cur)) = <<>> THEN <<>> ELSE <<Strip(Concat(cur))>>

\* The while loop of _merge_splits: splits leave the head of the current
\* document until what is left fits the overlap and leaves room for the
\* next split of length n.
RECURSIVE PopOverlap(_, _, _)
PopOverlap(cur, total, n) ==
  IF total > CHUNK_OVERLAP \/ (total + n > CHUNK_SIZE /\ total > 0)
  THEN PopOverlap(Tail(cur), total - TextLen(Head(cur)), n)
  ELSE [cur |-> cur, total |-> total]

\* _merge_splits: the splits are collected into documents of at most
\* CHUNK_SIZE characters; a document that is closed hands its last splits,
\* at most CHUNK_OVERLAP characters, to the next one.
RECURSIVE MergeSplits(_, _, _)
MergeSplits(splits, cur, total) ==
  IF splits = <<>> THEN JoinDocs(cur)
  ELSE LET d == Head(splits)
           n == TextLen(d)
       IN IF total + n > CHUNK_SIZE /\ cur # <<>>
          THEN LET kept == PopOverlap(cur, total, n)
               IN JoinDocs(cur) \o
                  MergeSplits(Tail(splits), Append(kept.cur, d),
                              kept.total + n)
          ELSE MergeSplits(Tail(splits), Append(cur, d), total + n)

\* The splitter on a text without a blank, or on a split of CHUNK_SIZE
\* characters or more: the separator is "", the splits are the characters,
\* and _merge_splits makes of them windows of CHUNK_SIZE characters that
\* start CHUNK_SIZE - CHUNK_OVERLAP characters apart, each stripped.
RECURSIVE CharWindows(_, _)
CharWindows(s, start) ==
  IF TextLen(s) - start <= CHUNK_SIZE
  THEN JoinDocs(<<DropChars(s, start)>>)
  ELSE JoinDocs(<<TakeChars(DropChars(s, start), CHUNK_SIZE)>>) \o
       CharWindows(s, start + CHUNK_SIZE - CHUNK_OVERLAP)

\* _split_text over the splits at blanks: splits shorter than CHUNK_SIZE
\* are collected and merged, a longer one closes the collection and is cut
\* by characters.
RECURSIVE SplitGood(_, _)
SplitGood(splits, good) ==
  IF splits = <<>> THEN MergeSplits(good, <<>>, 0)
  ELSE IF TextLen(Head(splits)) < CHUNK_SIZE
  THEN SplitGood(Tail(splits), Append(good, Head(splits)))
  ELSE MergeSplits(good, <<>>, 0) \o CharWindows(Head(splits), 0) \o
       SplitGood(Tail(splits), <<>>)

\* text_splitter.split_text on a cleaned text (which has no newline): the
\* first separator of ["\n\n", "\n", " ", ""] the text contains.
split_text(text) ==
  IF \E i \in 1..Len(text) : text[i] = Blank
  THEN SplitGood(SplitAtBlanks(text, <<>>), <<>>)
  ELSE CharWindows(text, 0)

\* Dicts numbered from one.
ChunkDicts_OneBased(chunks) ==
  [i \in 1..Len(chunks) |->
     [chunk_index |-> i, content |-> chunks[i],
      length |-> TextLen(chunks[i])]]

\* The dicts chunk_content returns, for a list of chunk texts.
ChunkDicts(chunks) ==
  [i \in 1..Len(chunks) |->
     [chunk_index |-> i - 1, content |-> chunks[i],
      length |-> TextLen(chunks[i])]]

\* chunk_content of files_processor.py
chunk_content(content) == ChunkDicts(split_text(clean_text(content)))

\* chunk_content of worker.py: the slices of WORKER_CHUNK_SIZE characters
\* of the content as it is.
RECURSIVE Slices(_, _)
Slices(s, start) ==
  IF start >= TextLen(s) THEN <<>>
  ELSE <<TakeChars(DropChars(s, start), WORKER_CHUNK_SIZE)>> \o
       Slices(s, start + WORKER_CHUNK_SIZE)

worker_chunk_content(content) == ChunkDicts(Slices(content, 0))

\* The lengths of the words of a content: one that fits the overlap, one
\* that does not, and one that no chunk can hold.
WordLens == {20, 120, 520}

\* The whitespace between two words, and at the ends of a content.
GapRuns == {<<Blank>>, <<Whitespace("\n")>>, <<Blank, Whitespace("\n")>>}

EdgeRuns == {<<>>, <<Whitespace("\n")>>}

\* The content with the words of lengths lens, gaps[i] after word i, and
\* lead and trail at its ends.
ContentOf(lens, gaps, lead, trail) ==
  LET RECURSIVE body(_)
      body(i) ==
        IF i > Len(lens) THEN <<>>
        ELSE <<WordPiece(i, 1, lens[i])>> \o
             (IF i < Len(lens) THEN gaps[i] \o body(i + 1) ELSE <<>>)
  IN lead \o body(1) \o trail

Contents ==
  UNION {{ContentOf(lens, gaps, lead, trail) :
            lens \in [1..n -> WordLens], gaps \in [1..(n - 1) -> GapRuns],
            lead \in EdgeRuns, trail \in EdgeRuns} : n \in 0..MaxWords}

\* The contents a call may get; a helper is called once.
ChunkArguments == IF call.fn = "none" THEN Contents ELSE {}

\* chunk_content(content, source, collection_id) of files_processor.py
ChunkContent(content) ==
  /\ call.fn = "none"
  /\ call' = [fn |-> "chunk_content", content |-> content,
               chunks |-> chunk_content(content)]
  /\ UNCHANGED <<pipeVars, sg, search, pool>>

\* chunk_content(content, source, collection_id) of worker.py
WorkerChunkContent(content) ==
  /\ call.fn = "none"
  /\ call' = [fn |-> "worker.chunk_content", content |-> content,
               chunks |-> worker_chunk_content(content)]
  /\ UNCHANGED <<pipeVars, sg, search, pool>>

NextChunk ==
  \E content \in ChunkArguments :
    \/ ChunkContent(content)
    \/ WorkerChunkContent(content)

SpecChunk == Init /\ [][NextChunk]_vars

\* ------------------------------------- the thread pool of scrape_gitlab

\* The work items of executor.map(process_path, all_to_process) that a
\* thread is running: in a request of safe_get or in its time.sleep.
InFlight == {t \in DOMAIN pool.status : pool.status[t] \in {"request", "sleep"}}

Queued == {t \in DOMAIN pool.status : pool.status[t] = "queued"}

\* The sizes of all_to_process; the map is entered once.
WorkLists == IF pool.pc = "idle" THEN 0..MaxFiles ELSE {}

\* Lines 305-306: with ThreadPoolExecutor(max_workers=MAX_WORKERS):
\* executor.map submits one work item per path, in order.
ExecutorMap(n) ==
  /\ pool.pc = "idle"
  /\ pool' = [pc |-> "map", status |-> [t \in 1..n |-> "queued"], sleeps |-> 0]
  /\ UNCHANGED <<pipeVars, sg, search, call>>

\* A pool that starts a thread for every work item.
WorkerTake_Unbounded(t) ==
  /\ pool.pc = "map"
  /\ t \in Queued
  /\ \A u \in Queued : t <= u
  /\ pool' = [pool EXCEPT !.status[t] = "request"]
  /\ UNCHANGED <<pipeVars, sg, search, call>>

\* A thread of the pool takes the oldest queued work item: the executor
\* starts no more than max_workers threads and a thread runs one item at
\* a time.
WorkerTake(t) ==
  /\ pool.pc = "map"
  /\ t \in Queued
  /\ \A u \in Queued : t <= u
  /\ Cardinality(InFlight) < MAX_WORKERS
  /\ pool' = [pool EXCEPT !.status[t] = "request"]
  /\ UNCHANGED <<pipeVars, sg, search, call>>

\* safe_get in the thread of work item t gets an answer: on 429 the thread
\* enters time.sleep (lines 51-55), otherwise process_file_content runs to
\* its end (it catches what it raises).
SafeGetAnswer(t, limited) ==
  /\ pool.pc = "map"
  /\ t \in DOMAIN pool.status
  /\ pool.status[t] = "request"
  /\ limited => pool.sleeps < MaxBackoffs
  /\ pool' = IF limited
             THEN [pool EXCEPT !.status[t] = "sleep", !.sleeps = @ + 1]
             ELSE [pool EXCEPT !.status[t] = "done"]
  /\ UNCHANGED <<pipeVars, sg, search, call>>

\* time.sleep(wait_time) returns in the thread of work item t.
SleepReturns(t) ==
  /\ pool.pc = "map"
  /\ t \in DOMAIN pool.status
  /\ pool.status[t] = "sleep"
  /\ pool' = [pool EXCEPT !.status[t] = "request"]
  /\ UNCHANGED <<pipeVars, sg, search, call>>

\* list(executor.map(...)) has every result and the with block is left.
ExecutorExit ==
  /\ pool.pc = "map"
  /\ \A t \in DOMAIN pool.status : pool.status[t] = "done"
  /\ pool' = [pool EXCEPT !.pc = "done"]
  /\ UNCHANGED <<pipeVars, sg, search, call>>

NextPool ==
  \/ \E n \in WorkLists : ExecutorMap(n)
  \/ \E t \in DOMAIN pool.status : WorkerTake(t)
  \/ \E t \in DOMAIN pool.status, limited \in BOOLEAN : SafeGetAnswer(t, limited)
  \/ \E t \in DOMAIN pool.status : SleepReturns(t)
  \/ ExecutorExit

SpecPool == Init /\ [][NextPool]_vars

\* ------------------------------------------- the pages of get_tree_entries

\* The headers a tree response may carry: without X-Next-Page, with an empty
\* one (the last page) and with the number of a further page.
TreeHeaders ==
  {<<>>} \cup {[h \in {"X-Next-Page"} |-> v] : v \in {"", "2"}}

\* The entry lists of one page of /repository/tree.
TreeEntryLists ==
  {<<>>,
   <<[type |-> "blob", path |-> "content/handbook/a.md"]>>,
   <<[type |-> "tree", path |-> "source/other/d.md"],
     [type |-> "blob", path |-> "content/handbook/a.md"]>>,
   <<[type |-> "blob", path |-> "source/direction/b.md"],
     [type |-> "blob", path |-> "content/handbook/a.txt"]>>}

\* What safe_get gives for one page: a response, or the exception it raises
\* when the retries are used up.
TreeResponses ==
  {[kind |-> "error"]} \cup
  {[kind |-> "ok", entries |-> es, headers |-> hs] :
     es \in TreeEntryLists, hs \in TreeHeaders}

\* The responses of the remote to pages 1, 2, ...; a page after the last
\* listed one is an empty list.
TreeRemotes ==
  UNION {[1..n -> TreeResponses] : n \in 0..MaxPages}

PageOf(remote, page) ==
  IF page <= Len(remote) THEN remote[page]
  ELSE [kind |-> "ok", entries |-> <<>>, headers |-> <<>>]

\* The extensions argument: None, or a list of suffixes.
ExtensionLists == {{}, {<<".md">>}, {<<".md">>, <<".txt">>}}

\* The list comprehension without the test of the entry type.
FilterEntries_AnyType(entries, extensions) ==
  SelectSeq(entries,
    LAMBDA entry :
      extensions = {} \/
        \E ext \in extensions : EndsWith(ScopeTokens(entry.path), ext))

\* gitlab_utils.py 57-62, worker.py 96-105: the entries of a page that are
\* blobs and, when extensions are given, end with one of them.
FilterEntries(entries, extensions) ==
  SelectSeq(entries,
    LAMBDA entry :
      /\ entry.type = "blob"
      /\ extensions = {} \/
           \E ext \in extensions : EndsWith(ScopeTokens(entry.path), ext))

\* gitlab_utils.py 64: if not resp.headers.get("X-Next-Page")
NoNextPage(headers) ==
  LET value == IF "X-Next-Page" \in DOMAIN headers
               THEN headers["X-Next-Page"] ELSE None
  IN value = None \/ value = ""

\* worker.py 107: "X-Next-Page" not in resp.headers or
\* resp.headers["X-Next-Page"] == ""
WorkerNoNextPage(headers) ==
  "X-Next-Page" \notin DOMAIN headers \/ headers["X-Next-Page"] = ""

RECURSIVE TreeLoop(_, _, _, _, _)
\* gitlab_utils.py 52-65: the while loop of get_tree_entries from the
\* request of `page` on; an exception of safe_get leaves the function.
TreeLoop(remote, extensions, page, requested, all_entries) ==
  LET resp == PageOf(remote, page)
      asked == Append(requested, page)
  IN IF resp.kind = "error"
     THEN [requested |-> asked, raised |-> TRUE, entries |-> <<>>]
     ELSE IF resp.entries = <<>>
     THEN [requested |-> asked, raised |-> FALSE, entries |-> all_entries]
     ELSE LET extended == all_entries \o FilterEntries(resp.entries, extensions)
          IN IF NoNextPage(resp.headers)
             THEN [requested |-> asked, raised |-> FALSE, entries |-> extended]
             ELSE TreeLoop(remote, extensions, page + 1, asked, extended)

RECURSIVE WorkerTreeLoop(_, _, _, _, _)
\* worker.py 86-111: the same loop inside try/except; an exception of
\* safe_get is printed and ends the loop, and what was collected is returned.
WorkerTreeLoop(remote, extensions, page, requested, all_entries) ==
  LET resp == PageOf(remote, page)
      asked == Append(requested, page)
  IN IF resp.kind = "error"
     THEN [requested |-> asked, raised |-> FALSE, entries |-> all_entries]
     ELSE IF resp.entries = <<>>
     THEN [requested |-> asked, raised |-> FALSE, entries |-> all_entries]
     ELSE LET extended == all_entries \o FilterEntries(resp.entries, extensions)
          IN IF WorkerNoNextPage(resp.headers)
             THEN [requested |-> asked, raised |-> FALSE, entries |-> extended]
             ELSE WorkerTreeLoop(remote, extensions, page + 1, asked, extended)

\* The remotes a call may meet; the function is called once.
TreeArguments == IF call.fn = "none" THEN TreeRemotes ELSE {}

\* get_tree_entries(repo_id, extensions) of gitlab_utils.py
GetTreeEntries(remote, extensions) ==
  /\ call.fn = "none"
  /\ call' = [fn |-> "get_tree_entries", remote |-> remote,
               extensions |-> extensions,
               result |-> TreeLoop(remote, extensions, 1, <<>>, <<>>)]
  /\ UNCHANGED <<pipeVars, sg, search, pool>>

\* get_tree_entries(repo_id, extensions) of worker.py
WorkerGetTreeEntries(remote, extensions) ==
  /\ call.fn = "none"
  /\ call' = [fn |-> "worker.get_tree_entries", remote |-> remote,
               extensions |-> extensions,
               result |-> WorkerTreeLoop(remote, extensions, 1, <<>>, <<>>)]
  /\ UNCHANGED <<pipeVars, sg, search, pool>>

NextTree ==
  \E remote \in TreeArguments, extensions \in ExtensionLists :
    \/ GetTreeEntries(remote, extensions)
    \/ WorkerGetTreeEntries(remote, extensions)

SpecTree == Init /\ [][NextTree]_vars

\* ------------------------------------------------------------------ claims

\* A step of fetch_files that ran the cycle of one repository.
CycleStep == fetchPos # 0 /\ fetchPos' # fetchPos

Collection(f) == TRACKED_REPOS[RepoOfPath(f)].collection_id

StoredChunks(docs, f) ==
  {[chunk_index |-> d.chunk_index, content |-> d.content] :
     d \in {x \in docs : x.source = f}}

\* C1: in fetch_files the cursor of a repository is written only by a cycle in
\* which no statement raised, and then every to-process path has a
\* PROCESS_PENDING checkpoint at the latest commit (DELETED if the path is
\* also to delete) and a process_file job dispatched by this cycle, and every
\* to-delete path has its checkpoint DELETED; a cycle in which a statement
\* raised leaves the cursor as it was.
C1_CursorAfterDispatch ==
  [][/\ (cursor' # cursor) => CycleStep /\ ~lastCycle'.raised
     /\ (CycleStep /\ lastCycle'.raised) => cursor' = cursor
     /\ (CycleStep /\ ~lastCycle'.raised) =>
          /\ cursor'[lastCycle'.repo] =
               [last_commit_id |-> lastCycle'.latest, last_commit_time |-> clock]
          /\ \A f \in lastCycle'.to_process :
               /\ \E j \in pfJobs' \ pfJobs :
                    /\ j.file_path = f
                    /\ j.commit_sha = lastCycle'.latest
                    /\ j.pc = "queued"
               /\ \E c \in checkpoints' :
                    /\ c.file_path = f
                    /\ c.commit_id = lastCycle'.latest
                    /\ c.state = IF f \in lastCycle'.to_delete
                                 THEN DELETED ELSE PROCESS_PENDING
          /\ \A f \in lastCycle'.to_delete :
               \E c \in checkpoints' : c.file_path = f /\ c.state = DELETED
    ]_vars

\* C1 witness: a cycle dispatched a job, then wrote the cursor.
C1_Witness ==
  /\ lastCycle.repo # 0
  /\ ~lastCycle.raised
  /\ lastCycle.to_process # {}
  /\ cursor[lastCycle.repo].last_commit_id = lastCycle.latest

\* C2 (as claimed): after a cycle whose to-delete set contains f, no document
\* of source f is left in the collection and the checkpoint of f is DELETED.
C2_DeleteRemovesAllChunks ==
  [][(CycleStep /\ ~lastCycle'.raised) =>
        \A f \in lastCycle'.to_delete :
          /\ ~\E d \in documents' :
                d.source = f /\ d.collection_id = Collection(f)
          /\ \E c \in checkpoints' : c.file_path = f /\ c.state = DELETED
    ]_vars

\* C3 (as claimed): when process_file, run for a source that had chunks of
\* an earlier version stored, ends with the checkpoint PROCESSED, the stored
\* chunks of the source are exactly the chunks 0..n-1 of the content at the
\* job's commit.
C3_ChunksReplaced ==
  [][\A j \in pfJobs :
        (/\ j.pc = "checkpoint"
         /\ j.stale
         /\ j \notin pfJobs'
         /\ \E l \in pfLog' \ pfLog : l.id = j.id /\ l.outcome = "processed"
         /\ \E c \in checkpoints' : /\ c.file_path = j.file_path
                                    /\ c.commit_id = j.commit_sha
                                    /\ c.state = PROCESSED)
        => LET content == get_file_content(j.project_id, j.file_path, j.commit_sha)
           IN StoredChunks(documents', j.file_path) =
                {[chunk_index |-> i, content |-> content.ver] :
                   i \in 0..(content.size - 1)}
    ]_vars

\* C4: a process_file job whose (commit id, path) checkpoint is PROCESSED or
\* EMBEDDED when it runs ends at once and changes neither the checkpoints,
\* nor the documents, nor the embed queue.
C4_SkipIsNoOp ==
  [][\A j \in pfJobs :
        (/\ j.pc = "queued"
         /\ j \notin pfJobs'
         /\ \E c \in checkpoints : /\ c.commit_id = j.commit_sha
                                   /\ c.file_path = j.file_path
                                   /\ c.state \in {PROCESSED, EMBEDDED})
        => /\ checkpoints' = checkpoints
           /\ documents' = documents
           /\ embedJobs' = embedJobs
           /\ pfJobs' = pfJobs \ {j}
    ]_vars

\* C4 witness: a job was skipped while chunks of its file are stored.
C4_Witness ==
  \E l \in pfLog : /\ l.outcome = "skipped"
                   /\ \E d \in documents : d.source = l.file_path

\* The first-ever cycle of r has just run to its end and every process_file
\* job has run, none of them into its except block.
FirstCycleIngested(r) ==
  /\ cycles = 1
  /\ lastCycle.repo = r
  /\ lastCycle.first
  /\ ~lastCycle.raised
  /\ pfJobs = {}
  /\ ~\E l \in pfLog : l.outcome = "error"

FilesAtCursor(r) ==
  {f \in PathsOf(r) : ExistsAt(r, f, cursor[r].last_commit_id)}

\* C5 (as claimed): after the first-ever cycle and its jobs, every file of the
\* tree is PROCESSED or EMBEDDED and has at least one stored chunk.
C5_FullResyncOriginal ==
  \A r \in Repos : FirstCycleIngested(r) =>
     \A f \in FilesAtCursor(r) :
       /\ \E c \in checkpoints : c.file_path = f /\ c.state \in {PROCESSED, EMBEDDED}
       /\ \E d \in documents : d.source = f

EmbedFailurePending(f) ==
  \/ \E e \in embedJobs : e.source = f /\ e.retries > 0
  \/ \E e \in embedDead : e.source = f

\* C5 (amended): after the first-ever cycle and its jobs, every file of the
\* tree has a checkpoint that is PROCESSED or EMBEDDED, or ERROR while a failed
\* embed_chunk job of the file has not succeeded on a retry, and has at least
\* one stored chunk when its content yields any chunk.
C5_FullResync ==
  \A r \in Repos : FirstCycleIngested(r) =>
     \A f \in FilesAtCursor(r) :
       /\ \E c \in checkpoints :
            /\ c.file_path = f
            /\ \/ c.state \in {PROCESSED, EMBEDDED}
               \/ c.state = ERROR /\ EmbedFailurePending(f)
       /\ get_file_content(r, f, cursor[r].last_commit_id).size > 0
            => \E d \in documents : d.source = f

\* C5 witness: the first-ever cycle is ingested and a file of the tree whose
\* content yields no chunk is PROCESSED with nothing stored.
C5_Witness ==
  \E r \in Repos :
    /\ FirstCycleIngested(r)
    /\ \E f \in FilesAtCursor(r) :
         /\ get_file_content(r, f, cursor[r].last_commit_id).size = 0
         /\ \E c \in checkpoints : c.file_path = f /\ c.state = PROCESSED
         /\ ~\E d \in documents : d.source = f

\* C6 (as claimed): while a checkpoint is EMBEDDED every stored chunk of its
\* file has a vector.
C6_EmbeddedMeansAllVectors ==
  \A c \in checkpoints : c.state = EMBEDDED =>
     \A d \in documents : d.source = c.file_path => d.vec

NextRepo(r) == IF r = NumRepos THEN 0 ELSE r + 1

\* C8 (as claimed): when change resolution raises in the cycle of a
\* repository, in fetch_files or in scrape_gitlab, the cursor and the
\* checkpoints stay as they were and the loop goes on to the next
\* repository.
C8_ResolutionFailureIsolated ==
  [][/\ (fetchPos # 0 /\ fetchPos' # fetchPos /\ ~lastCycle'.resolved)
          => /\ cursor' = cursor
             /\ checkpoints' = checkpoints
             /\ fetchPos' = NextRepo(fetchPos)
     /\ (scrapePos # 0 /\ scrapePos' # scrapePos /\ ~lastCycle'.resolved)
          => /\ cursor' = cursor
             /\ checkpoints' = checkpoints
             /\ scrapePos' = NextRepo(scrapePos)
    ]_vars

\* C9 (as claimed): a failed attempt of embed_chunk that is retried leaves the
\* checkpoints alone; the attempt that exhausts the retries sets the
\* checkpoint of the file to EMBED_ERROR with the error text and the job is
\* not queued again.
C9_EmbedErrorOnExhaustion ==
  [][\A e \in embedJobs :
        /\ ([e EXCEPT !.retries = @ + 1] \in embedJobs' /\ e \notin embedJobs')
             => /\ e.retries < EMBED_MAX_RETRIES
                /\ checkpoints' = checkpoints
        /\ (e \in embedDead' /\ e \notin embedDead)
             => /\ e.retries = EMBED_MAX_RETRIES
                /\ ~\E x \in embedJobs' : /\ x.source = e.source
                                          /\ x.chunk_index = e.chunk_index
                                          /\ x.by = e.by
                /\ \E c \in checkpoints' : /\ c.file_path = e.source
                                           /\ c.state = EMBED_ERROR
                                           /\ c.error_message # None
    ]_vars

\* C10: one call of safe_get makes at most MAX_RETRIES requests; every
\* response with status 429 or >= 500 is followed by a wait, the i-th wait of
\* the call lasting 2^(i-1) seconds; a response is returned only for a status
\* that is neither retryable nor an error, and when all the attempts got a
\* retryable status the call ends with the exception.
C10_SafeGetBackoff ==
  /\ sg.requests <= 5
  /\ sg.requests = Len(sg.statuses)
  /\ \A i \in 1..Len(sg.waits) : sg.waits[i] = 2 ^ (i - 1)
  /\ \A i \in 1..Len(sg.waits) :
       sg.statuses[i] = 429 \/ sg.statuses[i] >= 500
  /\ \A i \in 1..Len(sg.statuses) :
       (sg.statuses[i] = 429 \/ sg.statuses[i] >= 500)
         => (i <= Len(sg.waits) \/ (i = Len(sg.statuses) /\ sg.pc = "sleep"))
  /\ sg.pc = "returned" => sg.statuses[Len(sg.statuses)] < 400
  /\ (/\ Len(sg.statuses) = 5
      /\ \A i \in 1..5 : sg.statuses[i] = 429 \/ sg.statuses[i] >= 500)
       => sg.pc \in {"sleep", "exhausted"}
  /\ sg.pc = "exhausted" => sg.requests = 5 /\ Len(sg.waits) = 5

\* C10 witness: a call whose five requests were all answered 429 or 5xx ended
\* with the exception after waits of 1, 2, 4, 8 and 16 seconds.
C10_Witness ==
  /\ sg.pc = "exhausted"
  /\ sg.requests = 5
  /\ sg.waits = <<1, 2, 4, 8, 16>>
  /\ \E i \in 1..5 : sg.statuses[i] = 429

\* C11: a response with an error status below 500 other than 429 ends the
\* call of safe_get on that attempt: it is the last request of the call, the
\* call has left through raise_for_status, and no wait follows it.
C11_ClientErrorFailsAtOnce ==
  \A i \in 1..Len(sg.statuses) :
    (sg.statuses[i] >= 400 /\ sg.statuses[i] < 500 /\ sg.statuses[i] # 429)
      => /\ i = Len(sg.statuses)
         /\ sg.requests = i
         /\ sg.pc = "http_error"
         /\ Len(sg.waits) = i - 1

\* C11 witness: a call answered 404 on an attempt after a retried one.
C11_Witness ==
  /\ sg.pc = "http_error"
  /\ Len(sg.statuses) >= 2
  /\ sg.statuses[Len(sg.statuses)] = 404

\* C12 (as claimed): a step of process_file or embed_chunk leaves every
\* checkpoint that is DELETED exactly as it is; only a cycle of fetch_files
\* changes such a row.
C12_DeletedIsTerminal ==
  [][~CycleStep =>
        \A c \in checkpoints : c.state = DELETED => c \in checkpoints'
    ]_vars

\* C13 (as claimed): a cycle does not put into its to-process set a path
\* whose checkpoints are all DELETED and which is not in the remote tree.
C13_TombstoneNotRediscovered ==
  [][(CycleStep /\ lastCycle'.resolved) =>
        \A f \in PathsOf(fetchPos) :
          (/\ CheckpointsOf(checkpoints, f) # {}
           /\ \A c \in CheckpointsOf(checkpoints, f) : c.state = DELETED
           /\ ~ExistsAt(fetchPos, f, Newest(fetchPos).id))
          => f \notin lastCycle'.to_process
    ]_vars

\* C14 (as claimed): the to-process set and the to-delete set of a cycle are
\* disjoint.
C14_ChangeSetsDisjoint ==
  [][(CycleStep /\ lastCycle'.resolved) =>
        lastCycle'.to_process \cap lastCycle'.to_delete = {}
    ]_vars

\* C15 (as claimed): the process_file job that a cycle dispatches for a file
\* it re-discovers PROCESSED or EMBEDDED at an older commit finds the
\* checkpoint reset to the new commit and ingests the content of its commit: it takes the early
\* return only if a job has already stored the chunks of the file at that
\* commit, whatever embed_chunk jobs of the previous version run in between.
C15_RediscoveryReprocesses ==
  [][\A j \in pfJobs :
        (/\ j.rediscovered
         /\ \E l \in pfLog' \ pfLog : l.id = j.id /\ l.outcome = "skipped")
        => \/ \E l \in pfLog : /\ l.file_path = j.file_path
                               /\ l.commit_sha = j.commit_sha
                               /\ l.outcome = "processed"
           \/ \E k \in pfJobs : /\ k.file_path = j.file_path
                                /\ k.commit_sha = j.commit_sha
                                /\ k.pc = "checkpoint"
    ]_vars

\* C16 (as claimed): at every moment the checkpoints table holds at most one
\* row per file path.
C16_OneCheckpointPerPath ==
  \A f \in Files : Cardinality(CheckpointsOf(checkpoints, f)) <= 1

LexicalIndex == <<"idx_", "tsv", "_search">>

\* A call of hybrid_search, direct or through generate_rag_context, that the
\* database answered.
SearchAnswered ==
  /\ search.pc # "idle"
  /\ search.fn \in {"hybrid_search", "generate_rag_context"}
  /\ search.ok

\* C18: when no lexical index exists, a call of hybrid_search that the
\* database answers returns (it does not raise for the missing index); the
\* rows it returns are distinct stored chunks that have a vector, the score
\* of each is its cosine similarity 1 - distance and nothing else, the rows
\* are in non-increasing order of cosine similarity, there are
\* min(top_k, number of chunks with a vector) of them, and no chunk with a
\* vector that was left out is more similar than a returned one.
C18_FallbackIsVectorOnly ==
  (SearchAnswered /\ LexicalIndex \notin search.indexes) =>
    LET m == search.matches
        sim(d) == One - search.distance[d]
        stored == {d \in documents : d.vec}
        shown == {m[i].row : i \in 1..Len(m)}
    IN /\ search.pc = "returned"
       /\ shown \subseteq stored
       /\ Cardinality(shown) = Len(m)
       /\ Len(m) <= search.top_k
       /\ Len(m) = IF search.top_k < Cardinality(stored) THEN search.top_k
                    ELSE Cardinality(stored)
       /\ \A i \in 1..Len(m) : m[i].final_score = One * sim(m[i].row)
       /\ \A i \in 1..Len(m), j \in 1..Len(m) :
            i < j => sim(m[i].row) >= sim(m[j].row)
       /\ \A d \in stored \ shown, i \in 1..Len(m) : sim(d) <= sim(m[i].row)

\* The fallback cut a result: three chunks have a vector, one of them also
\* a lexical rank for the query and one of them none at all, top_k rows
\* came back, and a chunk without a vector is in the store.
C18_Witness ==
  /\ SearchAnswered /\ search.fn = "hybrid_search"
  /\ search.pc = "returned"
  /\ LexicalIndex \notin search.indexes
  /\ Len(search.matches) = search.top_k
  /\ Cardinality({d \in documents : d.vec}) > search.top_k
  /\ \E d \in documents : ~d.vec
  /\ \E d \in DOMAIN search.rank : search.rank[d] > 0
  /\ \E d \in DOMAIN search.rank : search.rank[d] = 0

\* C19: generate_rag_context returns whenever the database answers, and what
\* it returns is a context string and a set of source URLs: with no
\* matching chunk the empty string and the empty set, with at least one
\* matching chunk a non-empty set holding the URL of every match; and
\* hybrid_gitlab_search always returns, with the empty content and no
\* sources when nothing matched.
C19_RagContextNeverRaisesOnEmpty ==
  /\ (search.pc # "idle" /\ search.fn = "generate_rag_context" /\ search.ok)
       => LET m == search.matches
          IN /\ search.pc = "returned"
             /\ search.context \in Seq(STRING)
             /\ \A u \in search.sources : u \in Seq(STRING)
             /\ Len(m) = 0 => (search.context = <<>> /\ search.sources = {})
             /\ Len(m) >= 1 =>
                  /\ search.sources # {}
                  /\ \A i \in 1..Len(m) :
                       \E u \in search.sources :
                         /\ u[1] \in {"https://handbook.gitlab.com/",
                                       "https://about.gitlab.com/direction/"}
                         /\ u[Len(u)] = PathTokens(m[i].row.source)[2]
  /\ (search.pc # "idle" /\ search.fn = "hybrid_gitlab_search")
       => /\ search.pc = "returned"
          /\ Len(search.matches) = 0 =>
               (search.context = <<>> /\ search.listed = <<>>)

\* Nothing matched although the store holds embedded chunks and the
\* lexical index exists: no chunk has a rank for the query.
C19_Witness ==
  /\ search.pc = "returned"
  /\ search.fn = "generate_rag_context"
  /\ LexicalIndex \in search.indexes
  /\ Cardinality({d \in documents : d.vec}) >= 2
  /\ search.matches = <<>>
  /\ search.context = <<>>
  /\ search.sources = {}

\* C20 as stated: in the hybrid branch, with the default weights, the fused
\* score of every returned chunk whose lexical rank is greater than 0 is
\* strictly greater than the cosine similarity of that chunk.
C20_FusedAboveVectorOnly ==
  (SearchAnswered /\ search.pc = "returned" /\ LexicalIndex \in search.indexes)
    => \A i \in 1..Len(search.matches) :
         LET d == search.matches[i].row
         IN search.rank[d] > 0 =>
              search.matches[i].final_score > One * (One - search.distance[d])

\* C20: in the hybrid branch, with the default weights, the fused score of
\* every returned chunk is 0.7 * cosine similarity + 0.3 * lexical rank;
\* when the lexical rank is greater than 0 it is strictly greater than the
\* weighted vector term 0.7 * cosine similarity, and it is strictly greater
\* than the cosine similarity itself exactly when the lexical rank is
\* greater than the cosine similarity.
C20_FusedAboveVectorTerm ==
  (SearchAnswered /\ search.pc = "returned" /\ LexicalIndex \in search.indexes)
    => \A i \in 1..Len(search.matches) :
         LET d == search.matches[i].row
             sim == One - search.distance[d]
             fused == search.matches[i].final_score
         IN /\ fused = VECTOR_WEIGHT * sim + TEXT_WEIGHT * search.rank[d]
            /\ search.rank[d] > 0 => fused > VECTOR_WEIGHT * sim
            /\ (fused > One * sim) <=> (search.rank[d] > sim)

\* The hybrid branch returned a chunk that has a lexical rank and a cosine
\* similarity above that rank, and one whose rank is above its similarity.
C20_Witness ==
  /\ SearchAnswered /\ search.pc = "returned"
  /\ LexicalIndex \in search.indexes
  /\ \E i \in 1..Len(search.matches) :
       LET d == search.matches[i].row
       IN /\ search.rank[d] > 0
          /\ One - search.distance[d] > search.rank[d]
          /\ search.matches[i].final_score < One * (One - search.distance[d])
  /\ \E i \in 1..Len(search.matches) :
       LET d == search.matches[i].row
       IN /\ search.rank[d] > One - search.distance[d]
          /\ search.matches[i].final_score > One * (One - search.distance[d])

\* The path segments _index and README dropped from a relative path: a piece
\* is a segment when a separator or an end of the path is on either side.
DropSegments(rel) ==
  LET whole(i) == /\ rel[i] \in {"_index", "README"}
                  /\ (i = 1 \/ rel[i - 1] = "/")
                  /\ (i = Len(rel) \/ rel[i + 1] = "/")
      keep == {i \in 1..Len(rel) : ~whole(i)}
      RECURSIVE pick(_)
      pick(i) == IF i > Len(rel) THEN <<>>
                 ELSE IF i \in keep THEN <<rel[i]>> \o pick(i + 1)
                 ELSE pick(i + 1)
  IN pick(1)

\* C21: build_source_url maps "content/handbook/" + R + ".md" in collection
\* handbook to the handbook base URL followed by R without its _index and
\* README segments and otherwise unaltered, "source/direction/" + R + ".md"
\* in collection direction to the direction base URL followed by the same,
\* and returns the path unchanged for every other collection.
C21_SourceUrlTransform ==
  call.fn = "build_source_url" =>
    /\ \A rel \in RelativePaths :
         /\ (/\ call.collection_id = "handbook"
             /\ call.file_path = <<"content/handbook/">> \o rel \o <<".md">>)
              => call.url = <<"https://handbook.gitlab.com/">> \o
                              DropSegments(rel)
         /\ (/\ call.collection_id = "direction"
             /\ call.file_path = <<"source/direction/">> \o rel \o <<".md">>)
              => call.url = <<"https://about.gitlab.com/direction/">> \o
                              DropSegments(rel)
    /\ call.collection_id \notin {"handbook", "direction"}
         => call.url = call.file_path

\* s[-k:]
LastChars(s, k) == DropChars(s, TextLen(s) - k)

\* The number of characters at the head of chunk cur that repeat the end of
\* chunk prev: the most, up to CHUNK_OVERLAP, for which the two agree.
Repeated(prev, cur) ==
  LET most == IF TextLen(prev) < TextLen(cur) THEN TextLen(prev)
              ELSE TextLen(cur)
      K == {k \in 0..CHUNK_OVERLAP :
              k <= most /\ Glue(TakeChars(cur, k)) = Glue(LastChars(prev, k))}
  IN CHOOSE k \in K : \A l \in K : l <= k

\* The chunks in index order, each without what it repeats, as one text.
Rebuilt(chunks) ==
  Glue(Concat([i \in 1..Len(chunks) |->
                 IF i = 1 THEN chunks[i].content
                 ELSE DropChars(chunks[i].content,
                                Repeated(chunks[i - 1].content,
                                         chunks[i].content))]))

\* C22: the chunks chunk_content returns, concatenated in index order after
\* removing from each the part (at most CHUNK_OVERLAP characters) that
\* repeats the end of the chunk before it, are the whitespace-normalized
\* content: no character lost, added or reordered.
C22_ChunkRoundTrip ==
  call.fn \in {"chunk_content", "worker.chunk_content"} =>
    Rebuilt(call.chunks) = clean_text(call.content)

Inspected(r, row) ==
  LET window == {i \in 1..Len(commits[r]) :
                   commits[r][i].time >= row.last_commit_time}
      stop == {i \in window : commits[r][i].id = row.last_commit_id}
  IN {i \in window : \A s \in stop : i > s}

\* The paths that the diffs of the commits at places I of r add or modify,
\* and those they delete.
DiffChanged(r, I) ==
  {commits[r][i].path : i \in {k \in I : ~commits[r][k].deleted}} \cup
  {commits[r][i].other : i \in {k \in I : commits[r][k].other # NoPath}}

DiffDeleted(r, I) ==
  {commits[r][i].path : i \in {k \in I : commits[r][k].deleted}}

\* C24: a cycle of fetch_files for a repository that has a cursor resolves
\* as to-process the tracked paths that an inspected diff adds or modifies
\* together with the files of the current tree that have no checkpoint
\* other than DELETED ones, and as to-delete exactly the tracked paths that
\* an inspected diff deletes; a path outside the subdirectory or with
\* another extension is in neither set.
C24_ChangeSetsWithCursor ==
  [][(CycleStep /\ lastCycle'.resolved /\ cursor[fetchPos] # NoTracker) =>
       LET r == fetchPos
           I == Inspected(r, cursor[r])
           tree == {f \in PathsOf(r) : ExistsAt(r, f, Newest(r).id)}
           seen == {c.file_path : c \in {x \in checkpoints : x.state # DELETED}}
       IN /\ lastCycle'.to_process =
               (DiffChanged(r, I) \cap PathsOf(r)) \cup (tree \ seen)
          /\ lastCycle'.to_delete = DiffDeleted(r, I) \cap PathsOf(r)
          /\ (lastCycle'.to_process \cup lastCycle'.to_delete)
               \cap OtherPaths(r) = {}]_vars

\* The place of the commit with this id in the history of r (0: none).
PlaceOf(r, id) ==
  LET S == {i \in 1..Len(commits[r]) : commits[r][i].id = id}
  IN IF S = {} THEN 0 ELSE CHOOSE i \in S : TRUE

\* A step of the loop of scrape_gitlab.
ScrapeStep == scrapePos # 0 /\ scrapePos' # scrapePos

\* C25: in a cycle that starts with a cursor, every commit whose diff the
\* newest-first walk requests is newer than the cursor commit: neither the
\* diff of the cursor commit nor the diff of a commit listed after it is
\* inspected, and a walk that meets the cursor commit in the listing ends
\* there, having inspected exactly the commits listed before it.
C25_WalkStopsAtCursor ==
  [][((CycleStep \/ ScrapeStep) /\ lastCycle'.resolved
        /\ cursor[lastCycle'.repo] # NoTracker) =>
       LET r == lastCycle'.repo
           at == PlaceOf(r, cursor[r].last_commit_id)
           listed == get_commits(r, cursor[r].last_commit_time)
       IN /\ at > 0
          /\ \A id \in lastCycle'.inspected : PlaceOf(r, id) > at
          /\ lastCycle'.stopped <=>
               \E k \in 1..Len(listed) : listed[k].id = cursor[r].last_commit_id
          /\ lastCycle'.stopped =>
               lastCycle'.inspected =
                 {commits[r][i].id : i \in (at + 1)..Len(commits[r])}]_vars

\* A cycle whose walk inspected a newer commit and ended at the cursor
\* commit, which has an older commit after it in the history.
C25_Witness ==
  /\ lastCycle.repo = 1 /\ lastCycle.resolved /\ ~lastCycle.first
  /\ lastCycle.stopped
  /\ lastCycle.inspected # {}
  /\ \A id \in lastCycle.inspected : PlaceOf(1, id) > 2

\* The cursor written by a cycle carries the timestamp of its commit.
CursorTimeIsCommitTime ==
  (CycleStep /\ cursor' # cursor) =>
    LET r == lastCycle'.repo
    IN cursor'[r].last_commit_time =
         commits'[r][PlaceOf(r, cursor'[r].last_commit_id)].time

\* A cycle that starts with a cursor inspects every commit that is in the
\* history after the cursor commit and resolves the path it touches.
NoCommitSkipped ==
  (CycleStep /\ lastCycle'.resolved /\ cursor[fetchPos] # NoTracker) =>
    LET r == fetchPos
        at == PlaceOf(r, cursor[r].last_commit_id)
    IN \A i \in (at + 1)..Len(commits[r]) :
          /\ commits[r][i].id \in lastCycle'.inspected
          /\ commits[r][i].path \in
               lastCycle'.to_process \cup lastCycle'.to_delete

\* C26: no change is lost between cycles of fetch_files: the cursor is
\* stored with the timestamp of the cursor commit, and every commit that
\* landed after the cursor commit, also one that landed while the previous
\* cycle was running, is inspected by the next cycle, which puts the
\* tracked path it touches in its to-process or to-delete set.
C26_NoChangeLost == [][CursorTimeIsCommitTime /\ NoCommitSkipped]_vars

\* C27: a cycle of fetch_files places in its to-process set every file of
\* the current tree whose checkpoint is PROCESS_ERROR, whether or not a
\* new commit touches the file.
C27_FailedFileRequeued ==
  [][(CycleStep /\ lastCycle'.resolved) =>
       \A f \in get_tree_entries(fetchPos) :
          (\E c \in checkpoints : c.file_path = f /\ c.state = PROCESS_ERROR)
            => f \in lastCycle'.to_process]_vars

\* An execution of embed_chunk: the only step that takes from the embedding
\* queue while the process_file jobs stay as they are.
EmbedChunkStep == embedJobs' # embedJobs /\ pfJobs' = pfJobs /\ pfLog' = pfLog

\* C28: embed_chunk changes the state of a checkpoint only when that state
\* is PROCESSED: the row it rewrites was PROCESSED, becomes EMBEDDED on a
\* success and an error state on a failure; a checkpoint that is
\* PROCESS_PENDING or PROCESS_ERROR is never moved to EMBEDDED.
C28_EmbedOnlyMovesProcessed ==
  [][EmbedChunkStep =>
       \A c \in checkpoints \ checkpoints' :
          /\ c.state = PROCESSED
          /\ \E n \in checkpoints' \ checkpoints :
                /\ n.file_path = c.file_path /\ n.commit_id = c.commit_id
                /\ n.state \in {EMBEDDED, ERROR}]_vars

\* The embed_chunk tasks that a step sends (a retry re-queues a task with
\* its count raised, it sends none).
SentNow == {e \in embedJobs' \ embedJobs : e.retries = 0}

\* When process_file sends an embed_chunk task, the checkpoint of the file
\* at the job's commit is PROCESSED.
SentAfterProcessed ==
  \A e \in SentNow :
     \E j \in pfJobs :
        /\ j.id = e.by
        /\ \E c \in checkpoints' : /\ c.file_path = j.file_path
                                    /\ c.commit_id = j.commit_sha
                                    /\ c.state = PROCESSED

\* A unit of work that ends in PROCESS_ERROR has sent no embed_chunk task.
NoneSentOnError ==
  \A l \in pfLog' \ pfLog :
     l.outcome = "error" =>
       \A e \in embedJobs' \cup embedDead' : e.by # l.id

\* C29: within the unit of work of one file the embedding jobs are
\* enqueued after the checkpoint is PROCESSED: no embed_chunk task of a
\* file is sent before the checkpoint of the file is PROCESSED, and none
\* is sent by a unit of work that ends in PROCESS_ERROR.
C29_EnqueueAfterProcessed == [][SentAfterProcessed /\ NoneSentOnError]_vars

\* C30: a process_file that replaces the chunks of its file without
\* raising sends exactly one embed_chunk task for each chunk it stored,
\* with the source path, the chunk index and the collection id of that
\* chunk, and no task for a chunk it did not store.
C30_OneEmbedJobPerStoredChunk ==
  [][\A j \in pfJobs :
       (j.pc = "queued" /\ \E k \in pfJobs' : k.id = j.id /\ k.pc = "checkpoint") =>
         LET content == get_file_content(j.project_id, j.file_path, j.commit_sha)
             stored == {d \in documents' : /\ d.source = j.file_path
                                           /\ d.collection_id = j.collection_id
                                           /\ d.content = content.ver}
             sent == {e \in SentNow : e.by = j.id}
         IN /\ {d.chunk_index : d \in stored} = 0..(content.size - 1)
            /\ Cardinality(stored) = content.size
            /\ Cardinality(sent) = Cardinality(stored)
            /\ \A e \in sent : e.task = "embed_chunk"
            /\ {<<e.source, e.chunk_index, e.collection_id>> : e \in sent} =
                 {<<d.source, d.chunk_index, d.collection_id>> : d \in stored}]_vars

\* A process_file that ended well after it stored two chunks, with the two
\* tasks it sent still on the embedding queue.
C30_Witness ==
  \E l \in pfLog :
     /\ l.outcome = "processed"
     /\ Cardinality({e \in embedJobs : e.by = l.id}) = MaxChunks
     /\ Cardinality({d \in documents : d.source = l.file_path}) = MaxChunks

\* C31: when a lexical index exists, hybrid_search returns at most top_k
\* rows, all of them distinct chunks with a non-zero lexical match; the
\* score of each is vector_weight * cosine similarity + text_weight *
\* lexical rank, the rows are in non-increasing order of that score, as
\* many as top_k allows are returned, and no chunk with a lexical match
\* that was left out has a higher score than a returned one.
C31_HybridTopK ==
  (SearchAnswered /\ search.pc = "returned" /\ LexicalIndex \in search.indexes)
    => LET m == search.matches
           score(d) == VECTOR_WEIGHT * (One - search.distance[d])
                         + TEXT_WEIGHT * search.rank[d]
           matched == {d \in DOMAIN search.rank : search.rank[d] > 0}
           shown == {m[i].row : i \in 1..Len(m)}
       IN /\ Len(m) <= search.top_k
          /\ Cardinality(shown) = Len(m)
          /\ shown \subseteq matched
          /\ matched \subseteq documents
          /\ Len(m) = IF search.top_k < Cardinality(matched) THEN search.top_k
                       ELSE Cardinality(matched)
          /\ \A i \in 1..Len(m) : m[i].final_score = score(m[i].row)
          /\ \A i \in 1..Len(m), j \in 1..Len(m) :
               i < j => m[i].final_score >= m[j].final_score
          /\ \A d \in matched \ shown, i \in 1..Len(m) :
               score(d) <= m[i].final_score

\* The hybrid branch cut a result: three chunks match the query, the two
\* with the higher scores came back in that order and the third, with a
\* lower score, was left out.
C31_Witness ==
  /\ SearchAnswered /\ search.pc = "returned" /\ search.fn = "hybrid_search"
  /\ LexicalIndex \in search.indexes
  /\ search.top_k = MaxTopK
  /\ Len(search.matches) = MaxTopK
  /\ Cardinality({d \in DOMAIN search.rank : search.rank[d] > 0}) > MaxTopK
  /\ search.matches[1].final_score > search.matches[2].final_score
  /\ \E d \in DOMAIN search.rank :
       /\ search.rank[d] > 0
       /\ \A i \in 1..Len(search.matches) : search.matches[i].row # d
       /\ FinalScore(search.distance[d], search.rank[d])
            < search.matches[2].final_score

\* The URLs of the retrieved chunks in ranked order.
RetrievedUrls(matches) ==
  [i \in 1..Len(matches) |->
     build_source_url(matches[i].row.collection_id,
                      PathTokens(matches[i].row.source))]

\* C32: in the source list of an answer built from a call of
\* hybrid_gitlab_search every URL of a retrieved chunk appears exactly
\* once, and the URLs are in the order of their first occurrence among the
\* retrieved chunks in ranked order.
C32_SourcesInFirstSeenOrder ==
  (search.pc = "returned" /\ search.fn = "hybrid_gitlab_search") =>
    LET sources == format_sources_from_tool_result(<<search.listed>>)
        urls == RetrievedUrls(search.matches)
    IN /\ \A i \in 1..Len(urls) :
            Cardinality({k \in 1..Len(sources) : sources[k] = urls[i]}) = 1
       /\ sources = UniqueSources(urls, {})

\* The number of characters of a text, piece by piece.
RECURSIVE CharCount(_)
CharCount(s) == IF s = <<>> THEN 0 ELSE PieceLen(Head(s)) + CharCount(Tail(s))

\* C33: for every input, both chunk_content functions return chunks whose
\* chunk_index values are 0, 1, ..., n-1 in output order, the length of the
\* metadata of each chunk is the number of characters of its content, and
\* no chunk is longer than the chunk-size constant of its module.
C33_ChunksIndexedAndBounded ==
  (call.fn \in {"chunk_content", "worker.chunk_content"}) =>
    LET size == IF call.fn = "chunk_content" THEN CHUNK_SIZE
                ELSE WORKER_CHUNK_SIZE
    IN \A i \in 1..Len(call.chunks) :
          /\ call.chunks[i].chunk_index = i - 1
          /\ call.chunks[i].length = CharCount(call.chunks[i].content)
          /\ call.chunks[i].length <= size

\* chunk_content of files_processor.py cut a content with a word longer
\* than a chunk: at least three chunks, one of them of exactly CHUNK_SIZE
\* characters and one shorter.
C33_Witness ==
  /\ call.fn = "chunk_content"
  /\ Len(call.chunks) >= 3
  /\ \E i \in 1..Len(call.chunks) : call.chunks[i].length = CHUNK_SIZE
  /\ \E i \in 1..Len(call.chunks) : call.chunks[i].length < CHUNK_SIZE

\* C34: during a scrape_gitlab cycle at most MAX_WORKERS file operations
\* are in flight at the same time, and a worker that waits in a rate-limit
\* backoff stops no other worker: every other operation in flight can get
\* its answer, and a queued file can be taken whenever fewer than
\* MAX_WORKERS operations are in flight.
C34_PoolBoundAndNoBlocking ==
  pool.pc = "map" =>
    /\ Cardinality(InFlight) <= MAX_WORKERS
    /\ (\E s \in InFlight : pool.status[s] = "sleep") =>
         /\ \A t \in InFlight :
              pool.status[t] = "request" => ENABLED SafeGetAnswer(t, FALSE)
         /\ \A t \in Queued :
              ((\A u \in Queued : t <= u) /\ Cardinality(InFlight) < MAX_WORKERS)
                => ENABLED (/\ pool' = [pool EXCEPT !.status[t] = "request"]
                            /\ UNCHANGED <<pipeVars, sg, search, call>>)

\* The pool is full while a file waits in the queue: MAX_WORKERS
\* operations are in flight, one of them in a backoff sleep and another
\* in a request.
C34_Witness ==
  /\ pool.pc = "map"
  /\ Cardinality(InFlight) = MAX_WORKERS
  /\ Queued # {}
  /\ \E s \in InFlight : pool.status[s] = "sleep"
  /\ \E t \in InFlight : pool.status[t] = "request"

\* C35: get_tree_entries asks for the pages 1, 2, 3, ... in order, each once,
\* and the last page it asks for is the first one that is empty, carries no
\* continuation header (none, or an empty one) or whose request raised; what
\* it returns is, in page order, exactly the entries of the pages it read
\* that are blobs and end with one of the extensions (every blob when no
\* extensions are given).  The function of gitlab_utils.py returns nothing
\* when a request raised, the one of worker.py returns what it had read.
C35_TreePagesInOrder ==
  call.fn \in {"get_tree_entries", "worker.get_tree_entries"} =>
    LET remote == call.remote
        Ends(i) ==
          \/ PageOf(remote, i).kind = "error"
          \/ PageOf(remote, i).entries = <<>>
          \/ "X-Next-Page" \notin DOMAIN PageOf(remote, i).headers
          \/ PageOf(remote, i).headers["X-Next-Page"] = ""
        last == CHOOSE k \in 1..(Len(remote) + 1) :
                  Ends(k) /\ \A i \in 1..(k - 1) : ~Ends(i)
        Wanted(entry) ==
          /\ entry.type = "blob"
          /\ call.extensions # {} =>
               \E ext \in call.extensions :
                 EndsWith(ScopeTokens(entry.path), ext)
        ReadOf(i) ==
          IF PageOf(remote, i).kind = "error" THEN <<>>
          ELSE SelectSeq(PageOf(remote, i).entries, Wanted)
        Read[i \in 0..last] ==
          IF i = 0 THEN <<>> ELSE Read[i - 1] \o ReadOf(i)
    IN /\ call.result.requested = [i \in 1..last |-> i]
       /\ call.result.raised <=>
            (call.fn = "get_tree_entries" /\ PageOf(remote, last).kind = "error")
       /\ ~call.result.raised => call.result.entries = Read[last]

\* C35 witness: a call that read two pages, the second without a
\* continuation, left a tree entry and a blob of another extension out and
\* returned a blob of each page.
C35_Witness ==
  /\ call.fn \in {"get_tree_entries", "worker.get_tree_entries"}
  /\ call.extensions = {<<".md">>}
  /\ call.result.requested = <<1, 2>>
  /\ ~call.result.raised
  /\ Len(call.result.entries) = 2
  /\ \E i \in 1..2 : \E e \in 1..Len(call.remote[i].entries) :
       call.remote[i].entries[e].type = "tree"
  /\ \A i \in 1..2 : call.remote[i].kind = "ok"

\* C36 (as claimed): once the process_file job of an ingested file and all
\* the embed_chunk jobs it enqueued have run, every embed_chunk job having
\* succeeded and no commit having changed or deleted the file, the
\* checkpoint of the file is EMBEDDED, in whatever order the embed_chunk
\* jobs and the process_file job took their steps.
C36_EmbeddedAfterAllJobsSucceed ==
  \A f \in Files :
     (/\ pushes = 0
      /\ faults = 0
      /\ embedDead = {}
      /\ ~\E j \in pfJobs : j.file_path = f
      /\ ~\E e \in embedJobs : e.source = f
      /\ \E l \in pfLog : l.file_path = f /\ l.outcome = "processed"
      /\ \E d \in documents : d.source = f
      /\ \A d \in documents : d.source = f => d.vec)
     => \A c \in CheckpointsOf(checkpoints, f) : c.state = EMBEDDED

\* C37 (as claimed): once all process_file and embed_chunk jobs have
\* finished, none of them having met a fault, the stored chunks of every
\* file that no commit deleted and that has a PROCESSED or EMBEDDED
\* checkpoint are the chunks of the file's content at the commit id of that
\* checkpoint, also when the jobs of two commits of the file, dispatched by
\* two successive cycles, ran in either order or overlapped.
C37_ChunksMatchCheckpointCommit ==
  (pfJobs = {} /\ embedJobs = {} /\ faults = 0) =>
    \A c \in checkpoints :
       (/\ c.state \in {PROCESSED, EMBEDDED}
        /\ \A r \in Repos : \A i \in 1..Len(commits[r]) :
              commits[r][i].path = c.file_path => ~commits[r][i].deleted) =>
         LET content ==
               get_file_content(RepoOfPath(c.file_path), c.file_path, c.commit_id)
         IN StoredChunks(documents, c.file_path) =
              {[chunk_index |-> i, content |-> content.ver] :
                 i \in 0..(content.size - 1)}

\* C38: after every step each stored chunk has a tsvector exactly when it
\* has a vector; a row that a step of process_file inserts has neither, and
\* a row that gains one of them gains both, in a successful step of
\* embed_chunk on that chunk; an embed_chunk that ends without a retry and
\* without failing for good leaves the chunk it names, when stored, with both.
C38_TsvIffVector ==
  [][/\ \A d \in documents' : d.tsv <=> d.vec
     /\ \A d \in documents' \ documents :
          \/ ~d.vec /\ ~d.tsv
          \/ /\ EmbedChunkStep
             /\ d.vec /\ d.tsv
             /\ \E o \in documents :
                  /\ [o EXCEPT !.vec = TRUE, !.tsv = TRUE] = d
                  /\ \E e \in embedJobs \ embedJobs' :
                       /\ e.source = o.source
                       /\ e.chunk_index = o.chunk_index
                       /\ e.collection_id = o.collection_id
     /\ (EmbedChunkStep /\ embedJobs' \subseteq embedJobs
           /\ embedDead' = embedDead) =>
          \A e \in embedJobs \ embedJobs' :
             \A d \in documents' :
                (/\ d.source = e.source /\ d.chunk_index = e.chunk_index
                 /\ d.collection_id = e.collection_id) => d.vec /\ d.tsv
    ]_vars

\* C38 witness: a file with two stored chunks, one written by embed_chunk
\* (vector and tsvector), the other as process_file inserted it (neither).
C38_Witness ==
  \E d \in documents, n \in documents :
     /\ d.source = n.source
     /\ d.vec /\ d.tsv
     /\ ~n.vec /\ ~n.tsv

\* The file is in the newest tree of the remote of its own repository.
InRemoteTree(f) == ExistsAt(RepoOfPath(f), f, Newest(RepoOfPath(f)).id)

\* A step of scrape_gitlab writes no DELETED checkpoint for a file of
\* repository r that is in the remote tree.
NoneMarkedDeleted(r) ==
  \A f \in PathsOf(r) :
     InRemoteTree(f) =>
       \A n \in checkpoints' \ checkpoints :
          n.file_path = f => n.state # DELETED

\* A step of scrape_gitlab leaves a file of repository r that is in the
\* remote tree with chunks when it had some, unless it processed the file
\* anew.
NoChunksRemoved(r) ==
  \A f \in PathsOf(r) :
     (/\ InRemoteTree(f)
      /\ \E d \in documents : d.source = f
      /\ f \notin lastCycle'.to_process)
       => \E d \in documents' : d.source = f

\* C39 (as claimed): no cycle of scrape_gitlab marks as DELETED, or removes
\* the chunks of, a file that is in the remote tree of its own repository,
\* also when the tree listing fails on a page; and the cycle of one
\* repository marks no checkpoint of a file of another tracked repository
\* as DELETED.
C39_ScrapeKeepsExistingFiles ==
  [][ScrapeStep =>
       /\ NoneMarkedDeleted(scrapePos)
       /\ NoChunksRemoved(scrapePos)
       /\ \A r \in Repos \ {scrapePos} :
            \A n \in checkpoints' \ checkpoints :
               n.file_path \in PathsOf(r) => n.state # DELETED]_vars

\* The first half of C39 for cycles whose requests all succeed.
C39_OwnFilesKeptWithoutFault ==
  [][(ScrapeStep /\ faults' = faults) =>
       NoneMarkedDeleted(scrapePos) /\ NoChunksRemoved(scrapePos)]_vars

\* The second half of C39 for cycles whose requests all succeed.
C39_OtherRepositoriesKept ==
  [][(ScrapeStep /\ faults' = faults) =>
       \A r \in Repos \ {scrapePos} :
          \A n \in checkpoints' \ checkpoints :
             n.file_path \in PathsOf(r) => n.state # DELETED]_vars

====
